---- MODULE Spec2Model ----
(***************************************************************************)
(* Location tracker (aiml/location_tracker): the Redis sliding window and  *)
(* journey marker (redis_utils.py), the HTTP handlers and the channel      *)
(* consumer that ingest samples and create AnomalyAlert rows (views.py,    *)
(* consumers.py), the rule-based scorer (feature_engineering.py) and the   *)
(* safety score (utils.py).                                                *)
(*                                                                         *)
(* Time is in seconds.  A subject identifier s stands for the user_id the  *)
(* clients send; the Django username f'user_{s}' is modelled by s itself,  *)
(* and the primary key of a User row is its position in `users`.           *)
(***************************************************************************)
EXTENDS Integers, Sequences, FiniteSets, TLC

VARIABLES
    journey,      \* Redis: the set of s whose key journey:{s} exists
    location,     \* Redis: s -> the list stored under location:{s}
    users,        \* Django User table: users[pk] = s for username user_{s}
    alerts,       \* Django AnomalyAlert table: a set of rows
    nextAlertId,  \* the next auto-increment id of AnomalyAlert
    clock,        \* wall clock, seconds (timezone.now())
    resp,         \* the response of the last handler that ran
    appended,     \* history: s -> the samples pushed since the list was last cleared
    fb,           \* the rule-based scorer's input and output (SpecFallback)
    conc          \* the calls in progress (SpecConcurrent, SpecModel, SpecWebhook)

vars == <<journey, location, users, alerts, nextAlertId, clock, resp, appended, fb, conc>>

----------------------------------------------------------------------------
(* Bounds of the model *)

MaxWindow == 3
MaxAlerts == 2
MaxTicks == 2
MaxAppends == 35
MaxScoreAlerts == 8
MaxFaultWindow == 3
MaxFaultAlerts == 2
MaxCalls == 2
MaxCrossWindow == 2
MaxCrossAlerts == 1
MaxExtractLen == 4
MaxJumpWindow == 4
MaxJumpAlerts == 3
MaxRaceCalls == 2

\* the subject identifiers the clients send
Subjects == {1}
\* usernames besides user_{s}: 0 stands for a registered account (the staff account)
OtherUsernames == {0}

(* Program constants *)

WindowSize == 30
base_score == 100
anomaly_penalty_per_alert == 15
night_penalty == 10
night_from_hour == 22
night_until_hour == 5
one_day == 86400
ist_utc_offset == 19800
webhook_timeout == 5

(* Inputs *)

\* the samples the clients send: (latitude, longitude) in 1e-4 degrees, timestamp in
\* seconds: Mumbai and Delhi, the two places the test scripts send. The timestamp
\* is the client's: 12:00:00 IST of day 0 (24 h behind the server's first clock
\* reading) and 17:30:00 IST of day 1 (5 h 30 min ahead of it).
SampleInputs == {<<190760, 728777, 23400>>, <<286139, 772090, 129600>>}
\* the server's clock starts at 12:00:00 IST of day 1 and advances in steps of 12 h
StartTime == {109800}
TickSteps == {43200}
\* 21:59:59, 22:00:00, 04:59:59, 05:00:00 and 12:00:00 IST of day 1
ScoreStartTimes == {145799, 145800, 84599, 84600, 109800}
\* the trained model's answer: predict() label and decision_function() value
\* (in 1/100); or no model (load_model() returns False); or an exception raised
\* while scaling or running inference
ModelOutcomes ==
    { [loaded |-> TRUE, raised |-> FALSE, prediction |-> -1, decision |-> -12],
      [loaded |-> TRUE, raised |-> FALSE, prediction |-> 1, decision |-> 8],
      [loaded |-> FALSE, raised |-> FALSE, prediction |-> 0, decision |-> 0],
      [loaded |-> TRUE, raised |-> TRUE, prediction |-> 0, decision |-> 0] }

----------------------------------------------------------------------------
(* redis_utils.py *)

Min(a, b) == IF a < b THEN a ELSE b
Max(a, b) == IF a > b THEN a ELSE b

\* a faulty push that replaces the list
rpush_overwrite(list, value) == <<value>>

\* Redis RPUSH
rpush(list, value) == Append(list, value)

\* a faulty LTRIM whose stop index is exclusive
ltrim_exclusive(list, start, stop) ==
    LET n == Len(list)
        first == IF start < 0 THEN Max(n + start, 0) ELSE start
        last == IF stop < 0 THEN n + stop - 1 ELSE Min(stop, n - 1) - 1
    IN  IF first > last THEN <<>> ELSE SubSeq(list, first + 1, last + 1)

\* Redis LTRIM key start stop: zero-based, inclusive, negative counts from the end
ltrim(list, start, stop) ==
    LET n == Len(list)
        first == IF start < 0 THEN Max(n + start, 0) ELSE start
        last == IF stop < 0 THEN n + stop ELSE Min(stop, n - 1)
    IN  IF first > last THEN <<>> ELSE SubSeq(list, first + 1, last + 1)

\* Redis LRANGE key 0 -1
lrange_all(list) == ltrim(list, 0, -1)

\* a faulty window that trims from the wrong end: ltrim(key, 0, 29)
add_location_point_keep_first(list, location_data) ==
    lrange_all(ltrim(rpush(list, location_data), 0, WindowSize - 1))

\* RedisClient.add_location_point: the list left under location:{user_id},
\* which is also the window it returns
add_location_point(list, location_data) ==
    lrange_all(ltrim(rpush(list, location_data), 0 - WindowSize, -1))

\* RedisClient.get_location_window
get_location_window(user_id) == lrange_all(location[user_id])

\* RedisClient.is_journey_active
is_journey_active(user_id) == user_id \in journey

----------------------------------------------------------------------------
(* feature_engineering.py *)

\* a faulty difference that does not wrap across 0/360
bearing_difference_no_wrap(bearing1, bearing2) ==
    IF bearing2 - bearing1 < 0 THEN bearing1 - bearing2 ELSE bearing2 - bearing1

\* bearing_difference: the absolute difference of two bearings, in degrees,
\* taken the short way round
bearing_difference(bearing1, bearing2) ==
    LET diff == IF bearing2 - bearing1 < 0 THEN bearing1 - bearing2
                ELSE bearing2 - bearing1
    IN  IF diff > 180 THEN 360 - diff ELSE diff

\* math.sin of an angle of whole tens of degrees, in 1/10000: the values at
\* 0, 10, ..., 90 degrees, continued over the circle
SineTable == <<0, 1736, 3420, 5000, 6428, 7660, 8660, 9397, 9848, 10000>>

math_sin(degrees) ==
    LET m == degrees % 360
    IN  IF m <= 90 THEN SineTable[(m \div 10) + 1]
        ELSE IF m <= 180 THEN SineTable[((180 - m) \div 10) + 1]
        ELSE IF m <= 270 THEN 0 - SineTable[((m - 180) \div 10) + 1]
        ELSE 0 - SineTable[((360 - m) \div 10) + 1]

math_cos(degrees) == math_sin(degrees + 90)

\* the product of two values in 1/10000
FixedMul(x, y) == (x * y) \div 10000

\* math.asin(math.sqrt(a)) for a in 1/10000, in 1/100 degree: the angle whose
\* squared sine is a, interpolated between the entries of the table
asin_sqrt(a) ==
    LET k == CHOOSE j \in 1..9 :
                 /\ FixedMul(SineTable[j], SineTable[j]) <= a
                 /\ \/ a < FixedMul(SineTable[j + 1], SineTable[j + 1])
                    \/ j = 9
        lo == FixedMul(SineTable[k], SineTable[k])
        hi == FixedMul(SineTable[k + 1], SineTable[k + 1])
    IN  1000 * (k - 1) + (1000 * (a - lo)) \div (hi - lo)

\* a faulty haversine that takes the cosine of the first latitude twice
haversine_distance_degrees_first_latitude(lat1, lon1, lat2, lon2) ==
    LET dlat == lat2 - lat1
        dlon == lon2 - lon1
        a == FixedMul(math_sin(dlat \div 2), math_sin(dlat \div 2))
             + FixedMul(FixedMul(math_cos(lat1), math_cos(lat1)),
                        FixedMul(math_sin(dlon \div 2), math_sin(dlon \div 2)))
    IN  (2 * asin_sqrt(a) * 111195) \div 100

\* haversine_distance computed as the code computes it, in metres, for
\* coordinates in whole degrees that are multiples of 20: the haversine formula
\* in fixed point; r * (pi / 180) is 111195 m per degree of arc
haversine_distance_degrees(lat1, lon1, lat2, lon2) ==
    LET dlat == lat2 - lat1
        dlon == lon2 - lon1
        a == FixedMul(math_sin(dlat \div 2), math_sin(dlat \div 2))
             + FixedMul(FixedMul(math_cos(lat1), math_cos(lat2)),
                        FixedMul(math_sin(dlon \div 2), math_sin(dlon \div 2)))
    IN  (2 * asin_sqrt(a) * 111195) \div 100

\* haversine_distance, in metres, tabulated for the positions the clients send:
\* 0 between equal positions, and the distance from Mumbai (19.0760, 72.8777) to
\* Delhi (28.6139, 77.2090) between different ones
haversine_distance(lat1, lon1, lat2, lon2) ==
    IF lat1 = lat2 /\ lon1 = lon2 THEN 0 ELSE 1148095

\* a timestamp string that datetime.fromisoformat() rejects, such as "invalid":
\* as a sort key it follows every ISO timestamp
UnparseableTimestamp == 999999999

\* a coordinate string that float() rejects, such as "abc"
NonNumeric == -999999999

\* a faulty sort that leaves the window in arrival order
InsertByTimestamp_append(point, sorted_window) == Append(sorted_window, point)

\* sorted(location_window, key=lambda x: x['timestamp']): a stable sort
InsertByTimestamp(point, sorted_window) ==
    LET before == {i \in 1..Len(sorted_window) :
                      sorted_window[i].timestamp <= point.timestamp}
        k == Cardinality(before)
    IN  SubSeq(sorted_window, 1, k) \o <<point>>
            \o SubSeq(sorted_window, k + 1, Len(sorted_window))

RECURSIVE SortByTimestamp(_)
SortByTimestamp(window) ==
    IF window = <<>> THEN <<>>
    ELSE InsertByTimestamp(window[Len(window)],
                           SortByTimestamp(SubSeq(window, 1, Len(window) - 1)))

\* datetime.fromisoformat() accepts both timestamps of the pair (i-1, i)
ParsablePair(sorted_window, i) ==
    /\ sorted_window[i].timestamp # UnparseableTimestamp
    /\ sorted_window[i - 1].timestamp # UnparseableTimestamp

\* a faulty pairing that keeps a pair of equal timestamps
UsablePairs_nonnegative(sorted_window) ==
    {i \in 2..Len(sorted_window) :
        /\ ParsablePair(sorted_window, i)
        /\ sorted_window[i].timestamp - sorted_window[i - 1].timestamp >= 0}

\* the pairs (i-1, i) of the sorted window that yield a speed: both timestamps
\* parse and time_diff > 0
UsablePairs(sorted_window) ==
    {i \in 2..Len(sorted_window) :
        /\ ParsablePair(sorted_window, i)
        /\ sorted_window[i].timestamp - sorted_window[i - 1].timestamp > 0}

\* float() accepts the coordinates of both points of the pair (i-1, i)
NumericPair(sorted_window, i) ==
    \A j \in {i - 1, i} :
        /\ sorted_window[j].latitude # NonNumeric
        /\ sorted_window[j].longitude # NonNumeric

\* speed = distance / time_diff if time_diff > 0 else 0, of the pair (i-1, i), in
\* m/s, rounded down
PairSpeed(sorted_window, i) ==
    LET distance ==
            haversine_distance(
                sorted_window[i - 1].latitude, sorted_window[i - 1].longitude,
                sorted_window[i].latitude, sorted_window[i].longitude)
        time_diff == sorted_window[i].timestamp - sorted_window[i - 1].timestamp
    IN  IF time_diff > 0 THEN distance \div time_diff ELSE 0

\* the list `speeds`: one entry per usable pair, in the order of the sorted window
RECURSIVE Speeds(_, _)
Speeds(sorted_window, n) ==
    IF n < 2 THEN <<>>
    ELSE IF n \in UsablePairs(sorted_window)
    THEN Append(Speeds(sorted_window, n - 1), PairSpeed(sorted_window, n))
    ELSE Speeds(sorted_window, n - 1)

\* calculate_bearing between the points of the ingestion inputs, in degrees rounded
\* down (atan2(0, 0) = 0 for a repeated point; Mumbai to Delhi 21.7, back 203.5)
calculate_bearing(lat1, lon1, lat2, lon2) ==
    IF lat1 = lat2 /\ lon1 = lon2 THEN 0
    ELSE IF lat2 > lat1 THEN 21 ELSE 203

\* the list `bearings`: one entry per usable pair, next to its speed
RECURSIVE Bearings(_, _)
Bearings(sorted_window, n) ==
    IF n < 2 THEN <<>>
    ELSE IF n \in UsablePairs(sorted_window)
    THEN Append(Bearings(sorted_window, n - 1),
                calculate_bearing(
                    sorted_window[n - 1].latitude, sorted_window[n - 1].longitude,
                    sorted_window[n].latitude, sorted_window[n].longitude))
    ELSE Bearings(sorted_window, n - 1)

\* bearing_changes: bearing_difference of each two consecutive bearings
bearing_changes(bearings) ==
    [i \in 1..(Len(bearings) - 1) |-> bearing_difference(bearings[i], bearings[i + 1])]

\* a faulty estimate that takes the difference of the speeds as it is
accelerations_no_time_diff(speeds) ==
    [i \in 1..(Len(speeds) - 1) |-> speeds[i + 1] - speeds[i]]

\* accelerations: (speeds[i] - speeds[i-1]) / time_diff with time_diff = 10.0, in
\* m/s^2 rounded down
accelerations(speeds) ==
    [i \in 1..(Len(speeds) - 1) |-> (speeds[i + 1] - speeds[i]) \div 10]

RECURSIVE np_sum(_)
np_sum(values) ==
    IF values = <<>> THEN 0
    ELSE values[Len(values)] + np_sum(SubSeq(values, 1, Len(values) - 1))

np_mean(values) == np_sum(values) \div Len(values)

np_max(values) ==
    CHOOSE x \in {values[i] : i \in 1..Len(values)} :
        \A i \in 1..Len(values) : values[i] <= x

np_min(values) ==
    CHOOSE x \in {values[i] : i \in 1..Len(values)} :
        \A i \in 1..Len(values) : x <= values[i]

abs(x) == IF x < 0 THEN 0 - x ELSE x

\* the integer square root, by bisection on lo..hi
RECURSIVE math_sqrt(_, _, _)
math_sqrt(x, lo, hi) ==
    IF lo >= hi THEN lo
    ELSE LET mid == (lo + hi + 1) \div 2
         IN  IF mid * mid <= x THEN math_sqrt(x, mid, hi)
             ELSE math_sqrt(x, lo, mid - 1)

\* np.std: the population standard deviation, rounded down; deviations above
\* 20000 are taken in hundreds so that their squares stay in range
np_std(values) ==
    LET mean == np_mean(values)
        unit == IF \E i \in 1..Len(values) : abs(values[i] - mean) > 20000
                THEN 100 ELSE 1
        squares == [i \in 1..Len(values) |->
                       ((values[i] - mean) \div unit) * ((values[i] - mean) \div unit)]
    IN  unit * math_sqrt(np_sum(squares) \div Len(values), 0, 46340)

\* features.extend([...]): the fourteen aggregates, for a non-empty list of speeds
Aggregate(speeds, changes, accs, n_points) ==
    << np_mean(speeds),
       IF Len(speeds) > 1 THEN np_std(speeds) ELSE 0,
       np_max(speeds),
       np_min(speeds),
       IF changes # <<>> THEN np_mean(changes) ELSE 0,
       IF Len(changes) > 1 THEN np_std(changes) ELSE 0,
       IF changes # <<>> THEN np_max(changes) ELSE 0,
       IF accs # <<>> THEN np_mean(accs) ELSE 0,
       IF Len(accs) > 1 THEN np_std(accs) ELSE 0,
       IF accs # <<>> THEN np_max(accs) ELSE 0,
       IF accs # <<>> THEN np_min(accs) ELSE 0,
       n_points,
       speeds[Len(speeds)],
       IF accs # <<>> THEN np_sum([i \in 1..Len(accs) |-> abs(accs[i])]) ELSE 0 >>

\* a faulty aggregate that counts only the points that ended a usable pair
feature_vector_usable_points(sorted_window) ==
    LET speeds == Speeds(sorted_window, Len(sorted_window))
    IN  Aggregate(speeds,
                  bearing_changes(Bearings(sorted_window, Len(sorted_window))),
                  accelerations(speeds), Len(speeds) + 1)

\* the vector that extract_features returns, before reshape(1, -1)
feature_vector(sorted_window) ==
    LET speeds == Speeds(sorted_window, Len(sorted_window))
    IN  Aggregate(speeds,
                  bearing_changes(Bearings(sorted_window, Len(sorted_window))),
                  accelerations(speeds), Len(sorted_window))

NoFeatures ==
    [present |-> FALSE, raised |-> FALSE, n_points |-> 0, n_speeds |-> 0,
     speeds |-> <<>>, accelerations |-> <<>>, features |-> <<>>]

\* extract_features has raised ValueError out of float()
FeaturesRaised == [NoFeatures EXCEPT !.raised = TRUE]

\* LocationFeatureEngineer.extract_features: None, or the vector `features`
\* with the number of points, the speeds and the accelerations it is computed
\* from; or the exception raised by float() on a coordinate of a usable pair
extract_features(location_window) ==
    IF Len(location_window) < 2 THEN NoFeatures
    ELSE LET sorted_window == SortByTimestamp(location_window)
             speeds == UsablePairs(sorted_window)
         IN  IF \E i \in speeds : ~NumericPair(sorted_window, i) THEN FeaturesRaised
             ELSE IF speeds = {} THEN NoFeatures
             ELSE [present |-> TRUE, raised |-> FALSE,
                   n_points |-> Len(sorted_window),
                   n_speeds |-> Cardinality(speeds),
                   speeds |-> Speeds(sorted_window, Len(sorted_window)),
                   accelerations |->
                       accelerations(Speeds(sorted_window, Len(sorted_window))),
                   features |-> feature_vector(sorted_window)]

\* LocationFeatureEngineer.is_anomalous_behavior on a 14-element vector
\* (features[0, i] is features[i + 1]); confidence in 1/100
NoVector == <<>>

\* a faulty scorer that asks for three indicators
is_anomalous_behavior_three(features) ==
    IF features = <<>> THEN [is_anomaly |-> FALSE, confidence |-> 0]
    ELSE LET abs_acceleration_max ==
                 IF features[10] < 0 THEN 0 - features[10] ELSE features[10]
             anomaly_indicators ==
                 (IF features[3] > 50 THEN 1 ELSE 0)
                 + (IF features[7] > 120 THEN 1 ELSE 0)
                 + (IF abs_acceleration_max > 10 THEN 1 ELSE 0)
                 + (IF features[1] < 1 /\ features[7] > 90 THEN 1 ELSE 0)
         IN  [is_anomaly |-> anomaly_indicators >= 3,
              confidence |-> (anomaly_indicators * 100) \div 4]


is_anomalous_behavior(features) ==
    IF features = NoVector THEN [is_anomaly |-> FALSE, confidence |-> 0]
    ELSE LET speed_mean == features[1]
             speed_max == features[3]
             bearing_change_max == features[7]
             acceleration_max == features[10]
             abs_acceleration_max ==
                 IF acceleration_max < 0 THEN 0 - acceleration_max ELSE acceleration_max
             anomaly_indicators ==
                 (IF speed_max > 50 THEN 1 ELSE 0)
                 + (IF bearing_change_max > 120 THEN 1 ELSE 0)
                 + (IF abs_acceleration_max > 10 THEN 1 ELSE 0)
                 + (IF speed_mean < 1 /\ bearing_change_max > 90 THEN 1 ELSE 0)
         IN  [is_anomaly |-> anomaly_indicators >= 2,
              confidence |-> (anomaly_indicators * 100) \div 4]

----------------------------------------------------------------------------
(* ml_models.py *)

\* a faulty predict_anomaly that flags the sample when inference raises
predict_anomaly_flag_on_error(features, outcome) ==
    IF ~outcome.loaded THEN [is_anomaly |-> FALSE, anomaly_score |-> 0]
    ELSE IF outcome.raised THEN [is_anomaly |-> TRUE, anomaly_score |-> 0]
    ELSE [is_anomaly |-> outcome.prediction = -1, anomaly_score |-> outcome.decision]

\* AnomalyDetectionModel.predict_anomaly: (False, 0.0) when the model cannot be
\* loaded, (False, 0.0) when scaling or inference raises, else
\* (prediction == -1, decision_function); is_anomalous_behavior is not called
predict_anomaly(features, outcome) ==
    IF ~outcome.loaded THEN [is_anomaly |-> FALSE, anomaly_score |-> 0]
    ELSE IF outcome.raised THEN [is_anomaly |-> FALSE, anomaly_score |-> 0]
    ELSE [is_anomaly |-> outcome.prediction = -1, anomaly_score |-> outcome.decision]

----------------------------------------------------------------------------
(* Django tables *)

\* User.objects.get(username=f'user_{user_id}'): the pk, or 0 for DoesNotExist
UserByUsername(user_id) ==
    IF \E pk \in 1..Len(users) : users[pk] = user_id
    THEN CHOOSE pk \in 1..Len(users) : users[pk] = user_id
    ELSE 0

\* User.objects.get(id=user_id): the pk, or 0 for DoesNotExist
UserById(user_id) == IF user_id \in 1..Len(users) THEN user_id ELSE 0

\* AnomalyAlert.objects.filter(user=user)
AlertsOfUser(pk) == {a \in alerts : a.user = pk}

\* the AnomalyAlert rows of subject s: those of the User named user_{s}
AlertsOf(s) == IF UserByUsername(s) = 0 THEN {} ELSE AlertsOfUser(UserByUsername(s))

\* a faulty row that swaps the coordinates
NewAlert_swapped(pk, latitude, longitude, timestamp, anomaly_score) ==
    [id |-> nextAlertId, user |-> pk, latitude |-> longitude, longitude |-> latitude,
     timestamp |-> timestamp, anomaly_score |-> anomaly_score, is_resolved |-> FALSE,
     resolution_notes |-> ""]

\* AnomalyAlert(...) as objects.create() stores it
NewAlert(pk, latitude, longitude, timestamp, anomaly_score) ==
    [id |-> nextAlertId, user |-> pk, latitude |-> latitude, longitude |-> longitude,
     timestamp |-> timestamp, anomaly_score |-> anomaly_score, is_resolved |-> FALSE,
     resolution_notes |-> ""]

----------------------------------------------------------------------------
(* utils.py *)

Factor(text, count) == [text |-> text, count |-> count]

\* datetime.now(pytz.timezone('Asia/Kolkata')).hour
hour_ist(now) == ((now + ist_utc_offset) \div 3600) % 24

\* a faulty count with an exclusive lower bound: timestamp__gt
recent_anomalies_gt(pk, now) ==
    Cardinality({a \in AlertsOfUser(pk) : a.timestamp > now - one_day})

\* a faulty count that leaves out the resolved alerts
recent_anomalies_unresolved(pk, now) ==
    Cardinality({a \in AlertsOfUser(pk) :
                    a.timestamp >= now - one_day /\ ~a.is_resolved})

\* AnomalyAlert.objects.filter(user=user, timestamp__gte=one_day_ago).count()
recent_anomalies(pk, now) ==
    Cardinality({a \in AlertsOfUser(pk) : a.timestamp >= now - one_day})

\* a faulty night test that starts an hour late
time_penalty_late(now) ==
    IF hour_ist(now) > night_from_hour \/ hour_ist(now) < night_until_hour
    THEN night_penalty ELSE 0


time_penalty(now) ==
    IF hour_ist(now) >= night_from_hour \/ hour_ist(now) < night_until_hour
    THEN night_penalty ELSE 0

\* a faulty score that is not clamped
clamp_score_none(final_score) == final_score

\* a faulty clamp that wraps the score into 0..100
clamp_score_wrap(final_score) == final_score % 101

\* final_score = max(0, min(100, final_score))
clamp_score(final_score) == Max(0, Min(100, final_score))

\* a faulty score that treats a missing User row as a user without alerts
calculate_safety_score_by_user_id_no_except(user_id, now) ==
    LET pk == UserByUsername(user_id)
        n == recent_anomalies(pk, now)
        anomaly_penalty == n * anomaly_penalty_per_alert
    IN  [score |-> clamp_score(base_score - anomaly_penalty - time_penalty(now)),
         factors |->
             (IF anomaly_penalty > 0
              THEN <<Factor("Detected recent movement anomalies", n)>> ELSE <<>>)
             \o (IF time_penalty(now) > 0
                 THEN <<Factor("Traveling during late night hours", 0)>> ELSE <<>>)]

\* calculate_safety_score_by_user_id(user_id), with the clock reading `now`
calculate_safety_score_by_user_id(user_id, now) ==
    LET pk == UserByUsername(user_id)
        n == recent_anomalies(pk, now)
        anomaly_penalty == n * anomaly_penalty_per_alert
    IN  IF pk = 0
        THEN [score |-> base_score,
              factors |-> <<Factor("No tracking history available", 0)>>]
        ELSE [score |-> clamp_score(base_score - anomaly_penalty - time_penalty(now)),
              factors |->
                  (IF anomaly_penalty > 0
                   THEN <<Factor("Detected recent movement anomalies", n)>> ELSE <<>>)
                  \o (IF time_penalty(now) > 0
                      THEN <<Factor("Traveling during late night hours", 0)>> ELSE <<>>)]

----------------------------------------------------------------------------
(* redis_utils.py: the operations on the store *)

\* a faulty start_journey that sets the marker and keeps the old window
RedisClient_start_journey_keep_window(user_id) ==
    /\ journey' = journey \cup {user_id}
    /\ UNCHANGED <<location, appended>>

RedisClient_start_journey(user_id) ==
    /\ journey' = journey \cup {user_id}
    /\ location' = [location EXCEPT ![user_id] = <<>>]
    /\ appended' = [appended EXCEPT ![user_id] = <<>>]

\* a faulty end_journey that deletes the marker and leaves the window
RedisClient_end_journey_marker_only(user_id) ==
    /\ journey' = journey \ {user_id}
    /\ UNCHANGED <<location, appended>>


RedisClient_end_journey(user_id) ==
    /\ journey' = journey \ {user_id}
    /\ location' = [location EXCEPT ![user_id] = <<>>]
    /\ appended' = [appended EXCEPT ![user_id] = <<>>]

RedisClient_add_location_point(user_id, location_data) ==
    /\ location' = [location EXCEPT
                       ![user_id] = add_location_point(location[user_id], location_data)]
    /\ appended' = [appended EXCEPT ![user_id] = Append(appended[user_id], location_data)]
    /\ UNCHANGED journey

----------------------------------------------------------------------------
(* views.py, consumers.py: the handlers *)

NoResp ==
    [op |-> "none", user_id |-> 0, status |-> 0, fallback |-> FALSE,
     scored |-> FALSE, anomaly_detected |-> FALSE, anomaly_score |-> 0, alert_id |-> 0,
     safety_score_reset |-> FALSE, anomalies_cleared |-> 0, deleted |-> 0,
     score |-> 0, factors |-> <<>>, error |-> "", log |-> "", admin_alert |-> FALSE]

Response(op, user_id, status) ==
    [NoResp EXCEPT !.op = op, !.user_id = user_id, !.status = status]

LocationData(latitude, longitude, timestamp) ==
    [latitude |-> latitude, longitude |-> longitude, timestamp |-> timestamp]

\* RegisterView.create: a new User row; usernames are unique
RegisterView_create(username) ==
    /\ \A pk \in 1..Len(users) : users[pk] # username
    /\ users' = Append(users, username)
    /\ resp' = Response("register", 0, 201)
    /\ UNCHANGED <<journey, location, alerts, nextAlertId, clock, appended, fb, conc>>

\* a faulty guard that scores a window of one sample
ShouldScore_any(window) == Len(window) >= 1

\* `if len(window) >= 2:` ... `if features is not None:`: the scorer runs
ShouldScore(window) == Len(window) >= 2 /\ extract_features(window).present

\* StartJourneyView.post; redis_up = FALSE: the Redis call raises
StartJourneyView_post(user_id, redis_up) ==
    /\ IF redis_up
       THEN /\ RedisClient_start_journey(user_id)
            /\ resp' = Response("start_journey", user_id, 200)
       ELSE /\ UNCHANGED <<journey, location, appended>>
            /\ resp' = [Response("start_journey", user_id, 200) EXCEPT !.fallback = TRUE]
    /\ UNCHANGED <<users, alerts, nextAlertId, clock, fb, conc>>

\* StartJourneyView.post when Redis raises on the second command of start_journey
\* (`self.client.delete(location_key)`), after the marker was set
StartJourneyView_post_delete_raises(user_id) ==
    /\ journey' = journey \cup {user_id}
    /\ resp' = [Response("start_journey", user_id, 200) EXCEPT !.fallback = TRUE]
    /\ UNCHANGED <<location, appended, users, alerts, nextAlertId, clock, fb, conc>>

\* a faulty end_journey view that keeps the alerts
EndJourneyView_post_keep_alerts(user_id, redis_up) ==
    /\ IF redis_up
       THEN RedisClient_end_journey(user_id)
       ELSE UNCHANGED <<journey, location, appended>>
    /\ resp' = [Response("end_journey", user_id, 200) EXCEPT
                   !.fallback = ~redis_up,
                   !.safety_score_reset = TRUE,
                   !.anomalies_cleared = Cardinality(AlertsOf(user_id))]
    /\ UNCHANGED <<users, alerts, nextAlertId, clock, fb, conc>>

\* a faulty end_journey view that keeps the alerts when Redis raises
EndJourneyView_post_fallback_keeps(user_id, redis_up) ==
    LET deleted_count == Cardinality(AlertsOf(user_id))
    IN  /\ IF redis_up
           THEN /\ RedisClient_end_journey(user_id)
                /\ alerts' = alerts \ AlertsOf(user_id)
           ELSE UNCHANGED <<journey, location, appended, alerts>>
        /\ resp' = [Response("end_journey", user_id, 200) EXCEPT
                       !.fallback = ~redis_up,
                       !.safety_score_reset = TRUE,
                       !.anomalies_cleared = IF redis_up THEN deleted_count ELSE 0]
        /\ UNCHANGED <<users, nextAlertId, clock, fb, conc>>

\* EndJourneyView.post: on both paths the alerts of User user_{user_id} are deleted
EndJourneyView_post(user_id, redis_up) ==
    LET deleted_count == Cardinality(AlertsOf(user_id))
    IN  /\ IF redis_up
           THEN RedisClient_end_journey(user_id)
           ELSE UNCHANGED <<journey, location, appended>>
        /\ alerts' = alerts \ AlertsOf(user_id)
        /\ resp' = [Response("end_journey", user_id, 200) EXCEPT
                       !.fallback = ~redis_up,
                       !.safety_score_reset = TRUE,
                       !.anomalies_cleared = deleted_count]
        /\ UNCHANGED <<users, nextAlertId, clock, fb, conc>>

\* EndJourneyView.post when Redis raises on the second command of end_journey
\* (`self.client.delete(location_key)`), after the marker was deleted: the except
\* branch deletes the alerts
EndJourneyView_post_delete_raises(user_id) ==
    LET deleted_count == Cardinality(AlertsOf(user_id))
    IN  /\ journey' = journey \ {user_id}
        /\ alerts' = alerts \ AlertsOf(user_id)
        /\ resp' = [Response("end_journey", user_id, 200) EXCEPT
                       !.fallback = TRUE,
                       !.safety_score_reset = TRUE,
                       !.anomalies_cleared = deleted_count]
        /\ UNCHANGED <<location, appended, users, nextAlertId, clock, fb, conc>>

\* EndJourneyView.post when the database raises on the ORM calls (an exception
\* other than User.DoesNotExist): the first raise, or the one out of Redis, reaches
\* `except Exception`, whose own attempt ends in `except Exception as db_error`
EndJourneyView_post_database_raises(user_id, redis_up) ==
    /\ IF redis_up
       THEN RedisClient_end_journey(user_id)
       ELSE UNCHANGED <<journey, location, appended>>
    /\ resp' = [Response("end_journey", user_id, 200) EXCEPT
                   !.fallback = TRUE,
                   !.safety_score_reset = TRUE,
                   !.anomalies_cleared = 0]
    /\ UNCHANGED <<users, alerts, nextAlertId, clock, fb, conc>>

\* what predict_anomaly prints when the trained model fails
ScorerLog(outcome) ==
    IF ~outcome.loaded THEN "Error loading model"
    ELSE IF outcome.raised THEN "Error in anomaly prediction"
    ELSE ""

\* a faulty fallback answer that reports the failure as a server error
FallbackResponse_500(user_id, error) ==
    [Response("track_location", user_id, 500) EXCEPT !.fallback = TRUE, !.error = error]

\* `except Exception as e:` of TrackLocationView.post: 202 in fallback mode, with
\* the exception as 'error' and no verdict
FallbackResponse(user_id, error) ==
    [Response("track_location", user_id, 202) EXCEPT !.fallback = TRUE, !.error = error]

\* TrackLocationView.post; redis_up = FALSE: the Redis calls raise; db_up = FALSE:
\* the database calls raise; webhook_up = FALSE: requests.post raises
TrackLocationView_post(user_id, latitude, longitude, timestamp, outcome, redis_up, db_up, webhook_up) ==
    LET location_data == LocationData(latitude, longitude, timestamp)
        window == add_location_point(location[user_id], location_data)
        features == extract_features(window)
        scored == ShouldScore(window)
        verdict == predict_anomaly(features, outcome)
        created == UserByUsername(user_id) = 0
        user == IF created THEN Len(users) + 1 ELSE UserByUsername(user_id)
        alert == NewAlert(user, latitude, longitude, timestamp, verdict.anomaly_score)
    IN  /\ UNCHANGED <<clock, fb, conc>>
        /\ IF ~redis_up
           THEN /\ resp' = FallbackResponse(user_id, "redis")
                /\ UNCHANGED <<journey, location, appended, users, alerts, nextAlertId>>
           ELSE IF ~is_journey_active(user_id)
           THEN /\ resp' = Response("track_location", user_id, 400)
                /\ UNCHANGED <<journey, location, appended, users, alerts, nextAlertId>>
           ELSE /\ RedisClient_add_location_point(user_id, location_data)
                /\ IF scored /\ verdict.is_anomaly /\ ~db_up
                   THEN /\ UNCHANGED <<users, alerts, nextAlertId>>
                        /\ resp' = FallbackResponse(user_id, "database")
                   ELSE IF scored /\ verdict.is_anomaly
                   THEN /\ users' = IF created THEN Append(users, user_id) ELSE users
                        /\ alerts' = alerts \cup {alert}
                        /\ nextAlertId' = nextAlertId + 1
                        /\ resp' = [Response("track_location", user_id, 202) EXCEPT
                                       !.scored = TRUE,
                                       !.anomaly_detected = TRUE,
                                       !.anomaly_score = verdict.anomaly_score,
                                       !.alert_id = alert.id,
                                       !.log = IF webhook_up THEN ""
                                               ELSE "Error sending anomaly webhook"]
                   ELSE /\ UNCHANGED <<users, alerts, nextAlertId>>
                        /\ resp' = [Response("track_location", user_id, 202) EXCEPT
                                       !.scored = scored,
                                       !.log = IF scored THEN ScorerLog(outcome) ELSE ""]

\* TrackLocationConsumer.track_location with create_anomaly_alert and
\* send_admin_alert: no response, every exception is swallowed; admin_alert is the
\* group_send to 'admin_alerts', which follows create_anomaly_alert whatever it
\* returned
TrackLocationConsumer_track_location(user_id, latitude, longitude, timestamp, outcome, redis_up) ==
    LET location_data == LocationData(latitude, longitude, timestamp)
        window == add_location_point(location[user_id], location_data)
        features == extract_features(window)
        scored == ShouldScore(window)
        verdict == predict_anomaly(features, outcome)
        user == UserById(user_id)
        alert == NewAlert(user, latitude, longitude, timestamp, verdict.anomaly_score)
    IN  /\ UNCHANGED <<clock, fb, users, conc>>
        /\ IF ~redis_up
           THEN /\ resp' = [Response("consumer", user_id, 0) EXCEPT !.fallback = TRUE]
                /\ UNCHANGED <<journey, location, appended, alerts, nextAlertId>>
           ELSE /\ RedisClient_add_location_point(user_id, location_data)
                /\ resp' = [Response("consumer", user_id, 0) EXCEPT
                               !.scored = scored,
                               !.log = IF scored THEN ScorerLog(outcome) ELSE "",
                               !.anomaly_detected = scored /\ verdict.is_anomaly,
                               !.admin_alert = scored /\ verdict.is_anomaly,
                               !.anomaly_score =
                                   IF scored /\ verdict.is_anomaly
                                   THEN verdict.anomaly_score ELSE 0,
                               !.alert_id =
                                   IF scored /\ verdict.is_anomaly /\ user # 0
                                   THEN alert.id ELSE 0]
                /\ IF scored /\ verdict.is_anomaly /\ user # 0
                   THEN /\ alerts' = alerts \cup {alert}
                        /\ nextAlertId' = nextAlertId + 1
                   ELSE UNCHANGED <<alerts, nextAlertId>>

\* SafetyScoreView.get
SafetyScoreView_get(user_id) ==
    LET score_data == calculate_safety_score_by_user_id(user_id, clock)
    IN  /\ resp' = [Response("safety_score", user_id, 200) EXCEPT
                       !.score = score_data.score,
                       !.factors = score_data.factors]
        /\ UNCHANGED <<journey, location, users, alerts, nextAlertId, clock, appended, fb, conc>>

\* ResetAnomaliesView.post: AnomalyAlert.objects.filter(user_id=user_id).delete()
ResetAnomaliesView_post(user_id) ==
    LET doomed == {a \in alerts : a.user = user_id}
    IN  /\ alerts' = alerts \ doomed
        /\ resp' = [Response("reset_anomalies", user_id, 200) EXCEPT
                       !.deleted = Cardinality(doomed)]
        /\ UNCHANGED <<journey, location, users, nextAlertId, clock, appended, fb, conc>>

\* a faulty update that deletes the alert it resolves
UpdateAnomalyView_update_delete(alert_id, is_resolved, resolution_notes) ==
    LET found == {a \in alerts : a.id = alert_id}
    IN  /\ alerts' = alerts \ found
        /\ resp' = [Response("update_anomaly", 0, IF found = {} THEN 404 ELSE 200)
                       EXCEPT !.alert_id = alert_id]
        /\ UNCHANGED <<journey, location, users, nextAlertId, clock, appended, fb, conc>>

\* UpdateAnomalyView (UpdateAPIView, lookup by id) with UpdateAnomalySerializer:
\* sets is_resolved and resolution_notes of the alert; 404 when there is no such
\* alert
UpdateAnomalyView_update(alert_id, is_resolved, resolution_notes) ==
    LET found == {a \in alerts : a.id = alert_id}
    IN  /\ alerts' = (alerts \ found)
                         \cup {[a EXCEPT !.is_resolved = is_resolved,
                                          !.resolution_notes = resolution_notes] :
                                  a \in found}
        /\ resp' = [Response("update_anomaly", 0, IF found = {} THEN 404 ELSE 200)
                       EXCEPT !.alert_id = alert_id]
        /\ UNCHANGED <<journey, location, users, nextAlertId, clock, appended, fb, conc>>

\* AdminAnomaliesView.get_queryset: AnomalyAlert.objects.filter(is_resolved=False)
AdminAnomaliesView_get_queryset == {a \in alerts : ~a.is_resolved}

\* the wall clock advances
Tick(step) ==
    /\ clock' = clock + step
    /\ UNCHANGED <<journey, location, users, alerts, nextAlertId, resp, appended, fb, conc>>

----------------------------------------------------------------------------
(* The service: two subjects, both ingestion paths, the clock *)

NoFb ==
    [features |-> NoVector, scored |-> FALSE, is_anomaly |-> FALSE, confidence |-> 0,
     predicted |-> FALSE, loaded |-> FALSE, raised |-> FALSE,
     model_is_anomaly |-> FALSE, model_score |-> 0]

\* the clients whose requests the server processes at the same time
Clients == {1, 2}

NoConc ==
    [pc |-> [p \in Clients |-> "idle"], done |-> [p \in Clients |-> 0],
     returned |-> [p \in Clients |-> <<>>], snapshot |-> <<>>]

InitStores ==
    /\ journey = {}
    /\ location = [s \in Subjects |-> <<>>]
    /\ users = <<>>
    /\ alerts = {}
    /\ nextAlertId = 1
    /\ resp = NoResp
    /\ appended = [s \in Subjects |-> <<>>]
    /\ conc = NoConc

Init ==
    /\ InitStores
    /\ clock \in StartTime
    /\ fb = NoFb

MaxClock == 109800 + MaxTicks * 43200

Next ==
    \/ \E username \in OtherUsernames : RegisterView_create(username)
    \/ \E s \in Subjects, up \in BOOLEAN : StartJourneyView_post(s, up)
    \/ \E s \in Subjects, up \in BOOLEAN : EndJourneyView_post(s, up)
    \/ \E s \in Subjects, c \in SampleInputs, o \in ModelOutcomes, up \in BOOLEAN :
          /\ Len(location[s]) < MaxWindow
          /\ nextAlertId <= MaxAlerts
          /\ TrackLocationView_post(s, c[1], c[2], c[3], o, up, TRUE, TRUE)
    \/ \E s \in Subjects, c \in SampleInputs, o \in ModelOutcomes, up \in BOOLEAN :
          /\ Len(location[s]) < MaxWindow
          /\ nextAlertId <= MaxAlerts
          /\ TrackLocationConsumer_track_location(s, c[1], c[2], c[3], o, up)
    \/ \E s \in Subjects : SafetyScoreView_get(s)
    \/ \E s \in Subjects : ResetAnomaliesView_post(s)
    \/ \E step \in TickSteps : clock + step <= MaxClock /\ Tick(step)

Spec == Init /\ [][Next]_vars

----------------------------------------------------------------------------
(* The window store alone: RedisClient's operations, one at a time, on one *)
(* subject, with more appends than the window holds.  The k-th sample of a *)
(* session is stamped 10 s after the (k-1)-th, so all of them differ.      *)

WindowCoords == {<<190760, 728777>>}

InitWindow ==
    /\ InitStores
    /\ clock \in ScoreStartTimes
    /\ fb = NoFb

WindowStart(s) ==
    /\ RedisClient_start_journey(s)
    /\ UNCHANGED <<users, alerts, nextAlertId, clock, resp, fb, conc>>

WindowAppend(s) ==
    /\ Len(appended[s]) < MaxAppends
    /\ \E c \in WindowCoords :
          RedisClient_add_location_point(
              s, LocationData(c[1], c[2], clock + 10 * Len(appended[s])))
    /\ UNCHANGED <<users, alerts, nextAlertId, clock, resp, fb, conc>>

WindowEnd(s) ==
    /\ RedisClient_end_journey(s)
    /\ UNCHANGED <<users, alerts, nextAlertId, clock, resp, fb, conc>>

NextWindow ==
    \/ \E s \in Subjects : WindowStart(s)
    \/ \E s \in Subjects : WindowAppend(s)
    \/ \E s \in Subjects : WindowEnd(s)

SpecWindow == InitWindow /\ [][NextWindow]_vars

----------------------------------------------------------------------------
(* The safety score with many alerts: the HTTP handlers on one subject, at *)
(* clock readings on both sides of the night hours.  The Mumbai sample is  *)
(* scored normal and the Delhi jump anomalous, as in the test scripts.     *)

ScoreInputs ==
    { <<<<190760, 728777, 23400>>,
        [loaded |-> TRUE, raised |-> FALSE, prediction |-> 1, decision |-> 8]>>,
      <<<<286139, 772090, 129600>>,
        [loaded |-> TRUE, raised |-> FALSE, prediction |-> -1, decision |-> -12]>> }

InitScore ==
    /\ InitStores
    /\ clock \in ScoreStartTimes
    /\ fb = NoFb

NextScore ==
    \/ \E s \in Subjects : StartJourneyView_post(s, TRUE)
    \/ \E s \in Subjects : EndJourneyView_post(s, TRUE)
    \/ \E s \in Subjects, i \in ScoreInputs :
          /\ Len(location[s]) < MaxWindow
          /\ nextAlertId <= MaxScoreAlerts
          /\ TrackLocationView_post(s, i[1][1], i[1][2], i[1][3], i[2], TRUE, TRUE, TRUE)
    \/ \E s \in Subjects : SafetyScoreView_get(s)

SpecScore == InitScore /\ [][NextScore]_vars

----------------------------------------------------------------------------
(* The rule-based scorer alone, on vectors at and around its thresholds *)

FeatureVector(speed_mean, speed_max, bearing_change_max, acceleration_max) ==
    <<speed_mean, 0, speed_max, 0, 0, 0, bearing_change_max, 0, 0, acceleration_max,
      0, 0, 0, 0>>

FeatureInputs ==
    {NoVector} \cup
    { FeatureVector(m, x, b, a) :
        m \in {0, 1, 5}, x \in {50, 51, 60}, b \in {0, 90, 91, 120, 121, 130},
        a \in {-11, -10, 0, 10, 11} }

InitFallback ==
    /\ InitStores
    /\ clock \in StartTime
    /\ fb \in {[NoFb EXCEPT !.features = f] : f \in FeatureInputs}

ScoreFallback ==
    /\ ~fb.scored
    /\ fb' = [fb EXCEPT
                 !.scored = TRUE,
                 !.is_anomaly = is_anomalous_behavior(fb.features).is_anomaly,
                 !.confidence = is_anomalous_behavior(fb.features).confidence]
    /\ UNCHANGED <<journey, location, users, alerts, nextAlertId, clock, resp, appended, conc>>

NextFallback == ScoreFallback

SpecFallback == InitFallback /\ [][NextFallback]_vars

----------------------------------------------------------------------------
(* The window store under concurrent requests: add_location_point is three    *)
(* Redis commands (RPUSH, LTRIM, LRANGE) sent one after the other with no      *)
(* MULTI or pipeline, so the commands of two calls for the same subject        *)
(* interleave; get_location_window is one LRANGE. The journey is active and   *)
(* the window starts empty or one short of full.                              *)

Prefill == {0, WindowSize - 1}

PrefillWindow(n) == [i \in 1..n |-> LocationData(190760, 728777, 100 + i)]

\* the k-th sample of client p: every sample differs from every other
ClientSample(p, k) == LocationData(190760 + p, 728777, clock + k)

InitConcurrent ==
    /\ journey = Subjects
    /\ \E n \in Prefill :
          /\ location = [s \in Subjects |-> PrefillWindow(n)]
          /\ appended = [s \in Subjects |-> PrefillWindow(n)]
    /\ users = <<>>
    /\ alerts = {}
    /\ nextAlertId = 1
    /\ resp = NoResp
    /\ clock \in StartTime
    /\ fb = NoFb
    /\ conc = NoConc

\* self.client.rpush(location_key, json.dumps(location_data))
add_location_point_rpush(p, user_id) ==
    /\ conc.pc[p] = "idle"
    /\ conc.done[p] < MaxCalls
    /\ location' = [location EXCEPT
                       ![user_id] = rpush(location[user_id],
                                          ClientSample(p, conc.done[p] + 1))]
    /\ appended' = [appended EXCEPT
                       ![user_id] = Append(appended[user_id],
                                           ClientSample(p, conc.done[p] + 1))]
    /\ conc' = [conc EXCEPT !.pc[p] = "pushed"]
    /\ UNCHANGED <<journey, users, alerts, nextAlertId, clock, resp, fb>>

\* self.client.ltrim(location_key, -30, -1)
add_location_point_ltrim(p, user_id) ==
    /\ conc.pc[p] = "pushed"
    /\ location' = [location EXCEPT
                       ![user_id] = ltrim(location[user_id], 0 - WindowSize, -1)]
    /\ conc' = [conc EXCEPT !.pc[p] = "trimmed"]
    /\ UNCHANGED <<journey, users, alerts, nextAlertId, clock, resp, appended, fb>>

\* window = self.client.lrange(location_key, 0, -1); return
add_location_point_lrange(p, user_id) ==
    /\ conc.pc[p] = "trimmed"
    /\ conc' = [conc EXCEPT !.pc[p] = "idle",
                            !.done[p] = conc.done[p] + 1,
                            !.returned[p] = lrange_all(location[user_id])]
    /\ UNCHANGED <<journey, location, users, alerts, nextAlertId, clock, resp,
                   appended, fb>>

\* RedisClient.get_location_window, called while appends are in progress
get_location_window_snapshot(user_id) ==
    /\ \E p \in Clients : conc.pc[p] # "idle"
    /\ conc' = [conc EXCEPT !.snapshot = get_location_window(user_id)]
    /\ UNCHANGED <<journey, location, users, alerts, nextAlertId, clock, resp,
                   appended, fb>>

NextConcurrent ==
    \/ \E p \in Clients, s \in Subjects : add_location_point_rpush(p, s)
    \/ \E p \in Clients, s \in Subjects : add_location_point_ltrim(p, s)
    \/ \E p \in Clients, s \in Subjects : add_location_point_lrange(p, s)
    \/ \E s \in Subjects : get_location_window_snapshot(s)

SpecConcurrent == InitConcurrent /\ [][NextConcurrent]_vars

----------------------------------------------------------------------------
(* Two subjects side by side: every handler for either subject, both          *)
(* ingestion paths, and the administrator resolving alerts. User rows are     *)
(* created by the HTTP view on a subject's first anomaly, so the primary key  *)
(* of user_{s} is the rank of s among the subjects with an anomaly.           *)

CrossSubjects == {1, 2}

\* the notes an administrator sends: none (null, the default) or a text
ResolutionNotes == {"", "false alarm"}

InitCross ==
    /\ journey = {}
    /\ location = [s \in CrossSubjects |-> <<>>]
    /\ appended = [s \in CrossSubjects |-> <<>>]
    /\ users = <<>>
    /\ alerts = {}
    /\ nextAlertId = 1
    /\ resp = NoResp
    /\ clock \in StartTime
    /\ fb = NoFb
    /\ conc = NoConc

NextCross ==
    \/ \E s \in CrossSubjects : StartJourneyView_post(s, TRUE)
    \/ \E s \in CrossSubjects : EndJourneyView_post(s, TRUE)
    \/ \E s \in CrossSubjects, i \in ScoreInputs :
          /\ Len(location[s]) < MaxCrossWindow
          /\ nextAlertId <= MaxCrossAlerts
          /\ TrackLocationView_post(s, i[1][1], i[1][2], i[1][3], i[2], TRUE, TRUE, TRUE)
    \/ \E s \in CrossSubjects, i \in ScoreInputs :
          /\ Len(location[s]) < MaxCrossWindow
          /\ nextAlertId <= MaxCrossAlerts
          /\ TrackLocationConsumer_track_location(s, i[1][1], i[1][2], i[1][3], i[2], TRUE)
    \/ \E s \in CrossSubjects : SafetyScoreView_get(s)
    \/ \E s \in CrossSubjects : ResetAnomaliesView_post(s)
    \/ \E id \in 1..MaxCrossAlerts, r \in BOOLEAN, notes \in ResolutionNotes :
          id < nextAlertId /\ UpdateAnomalyView_update(id, r, notes)

SpecCross == InitCross /\ [][NextCross]_vars

----------------------------------------------------------------------------
(* The HTTP ingestion path under failures: one subject, every outcome of the   *)
(* trained model, and the session store, the database and the webhook each up *)
(* or down during a submit                                                    *)

InitFaults ==
    /\ InitStores
    /\ clock \in StartTime
    /\ fb = NoFb

NextFaults ==
    \/ \E s \in Subjects, up \in BOOLEAN : StartJourneyView_post(s, up)
    \/ \E s \in Subjects, up \in BOOLEAN : EndJourneyView_post(s, up)
    \/ \E s \in Subjects : StartJourneyView_post_delete_raises(s)
    \/ \E s \in Subjects : EndJourneyView_post_delete_raises(s)
    \/ \E s \in Subjects, up \in BOOLEAN : EndJourneyView_post_database_raises(s, up)
    \/ \E s \in Subjects, c \in SampleInputs, o \in ModelOutcomes,
          up \in BOOLEAN, db \in BOOLEAN, wh \in BOOLEAN :
          /\ Len(location[s]) < MaxFaultWindow
          /\ nextAlertId <= MaxFaultAlerts
          /\ TrackLocationView_post(s, c[1], c[2], c[3], o, up, db, wh)

SpecFaults == InitFaults /\ [][NextFaults]_vars

----------------------------------------------------------------------------
(* The scorer of the ingestion path alone: predict_anomaly on the same vectors, *)
(* with every outcome of the trained model, next to the rule-based scorer       *)

\* `is_anomaly, anomaly_score = anomaly_model.predict_anomaly(features)`
PredictAnomaly(outcome) ==
    /\ ~fb.predicted
    /\ fb.features # NoVector
    /\ fb' = [fb EXCEPT
                 !.predicted = TRUE,
                 !.loaded = outcome.loaded,
                 !.raised = outcome.raised,
                 !.model_is_anomaly = predict_anomaly(fb.features, outcome).is_anomaly,
                 !.model_score = predict_anomaly(fb.features, outcome).anomaly_score]
    /\ UNCHANGED <<journey, location, users, alerts, nextAlertId, clock, resp, appended, conc>>

NextPredict ==
    \/ ScoreFallback
    \/ \E o \in ModelOutcomes : PredictAnomaly(o)

SpecPredict == InitFallback /\ [][NextPredict]_vars

----------------------------------------------------------------------------
(* Feature extraction alone: extract_features on every window of up to          *)
(* MaxExtractLen samples, in every arrival order. The samples are in Mumbai or *)
(* Delhi; two of them share a timestamp, one has a timestamp that does not      *)
(* parse and one a latitude that is not a number.                              *)

ExtractSamples ==
    { LocationData(190760, 728777, 100),
      LocationData(190760, 728777, 110),
      LocationData(286139, 772090, 110),
      LocationData(286139, 772090, 130),
      LocationData(190760, 728777, UnparseableTimestamp),
      LocationData(NonNumeric, 772090, 120) }

RECURSIVE WindowsUpTo(_)
WindowsUpTo(n) ==
    IF n = 0 THEN {<<>>}
    ELSE LET shorter == WindowsUpTo(n - 1)
         IN  shorter \cup {Append(w, x) : w \in shorter, x \in ExtractSamples}

InitExtract ==
    /\ journey = Subjects
    /\ location \in {[s \in Subjects |-> w] : w \in WindowsUpTo(MaxExtractLen)}
    /\ appended = location
    /\ users = <<>>
    /\ alerts = {}
    /\ nextAlertId = 1
    /\ resp = NoResp
    /\ clock \in StartTime
    /\ fb = NoFb
    /\ conc = NoConc

\* `features = feature_engineer.extract_features(window)`
ExtractFeatures(s) ==
    /\ ~fb.scored
    /\ fb' = [fb EXCEPT !.scored = TRUE, !.features = extract_features(location[s])]
    /\ UNCHANGED <<journey, location, users, alerts, nextAlertId, clock, resp, appended, conc>>

\* the same samples arrive in another order: two neighbours are exchanged
ArriveSwapped(s, i) ==
    /\ i \in 1..(Len(location[s]) - 1)
    /\ location[s][i] # location[s][i + 1]
    /\ location' = [location EXCEPT
                       ![s] = [location[s] EXCEPT
                                  ![i] = location[s][i + 1],
                                  ![i + 1] = location[s][i]]]
    /\ appended' = location'
    /\ fb' = NoFb
    /\ UNCHANGED <<journey, users, alerts, nextAlertId, clock, resp, conc>>

NextExtract ==
    \/ \E s \in Subjects : ExtractFeatures(s)
    \/ \E s \in Subjects, i \in 1..MaxExtractLen : ArriveSwapped(s, i)

SpecExtract == InitExtract /\ [][NextExtract]_vars

----------------------------------------------------------------------------
(* The shared AnomalyDetectionModel instance under concurrent requests: the     *)
(* requests of two clients call anomaly_model.predict_anomaly on the one       *)
(* global instance, with no lock; the first calls find model and scaler None   *)
(* and load them from disk or, when the files are missing, train them.  An     *)
(* estimator is a version (the training run that fitted it; DiskVersion for    *)
(* the files of an earlier run) and whether it is fitted.  Here `conc` holds   *)
(* the instance's attributes, the files, and each request's position.          *)

DiskVersion == 0

NoEstimator == [version |-> -1, fitted |-> FALSE]

Estimator(version, fitted) == [version |-> version, fitted |-> fitted]

NoFiles == [model |-> NoEstimator, scaler |-> NoEstimator]

InitModel ==
    /\ journey = {}
    /\ location = [s \in Subjects |-> <<>>]
    /\ appended = [s \in Subjects |-> <<>>]
    /\ users = <<>>
    /\ alerts = {}
    /\ nextAlertId = 1
    /\ resp = NoResp
    /\ clock \in StartTime
    /\ fb = NoFb
    /\ \E files \in {NoFiles, [model |-> Estimator(DiskVersion, TRUE),
                               scaler |-> Estimator(DiskVersion, TRUE)]} :
          conc = [pc |-> [p \in Clients |-> "idle"],
                  model |-> NoEstimator,
                  scaler |-> NoEstimator,
                  files |-> files,
                  used_scaler |-> [p \in Clients |-> NoEstimator],
                  used_model |-> [p \in Clients |-> NoEstimator],
                  raised |-> [p \in Clients |-> FALSE]]

ModelStep(p, from) ==
    /\ conc.pc[p] = from
    /\ UNCHANGED <<journey, location, users, alerts, nextAlertId, clock, resp, appended, fb>>

\* `if self.model is None or self.scaler is None:` ... `self.load_model()`
predict_anomaly_check(p) ==
    /\ ModelStep(p, "idle")
    /\ conc' = [conc EXCEPT
                   !.pc[p] = IF conc.model = NoEstimator \/ conc.scaler = NoEstimator
                             THEN "load_model" ELSE "transform"]

\* `if os.path.exists(self.model_path) and os.path.exists(self.scaler_path):`
load_model_exists(p) ==
    /\ ModelStep(p, "load_model")
    /\ conc' = [conc EXCEPT
                   !.pc[p] = IF conc.files # NoFiles THEN "load_model_file"
                             ELSE "new_scaler"]

\* `self.model = joblib.load(self.model_path)`
load_model_model(p) ==
    /\ ModelStep(p, "load_model_file")
    /\ conc' = [conc EXCEPT !.model = conc.files.model, !.pc[p] = "load_scaler_file"]

\* `self.scaler = joblib.load(self.scaler_path)`
load_model_scaler(p) ==
    /\ ModelStep(p, "load_scaler_file")
    /\ conc' = [conc EXCEPT !.scaler = conc.files.scaler, !.pc[p] = "transform"]

\* `self.scaler = StandardScaler()`
train_model_new_scaler(p) ==
    /\ ModelStep(p, "new_scaler")
    /\ conc' = [conc EXCEPT !.scaler = Estimator(p, FALSE), !.pc[p] = "fit_scaler"]

\* `scaled_data = self.scaler.fit_transform(training_data)`: fits, in place, the
\* scaler the attribute holds now
train_model_fit_scaler(p) ==
    /\ ModelStep(p, "fit_scaler")
    /\ conc' = [conc EXCEPT !.scaler = Estimator(p, TRUE), !.pc[p] = "new_model"]

\* `self.model = IsolationForest(...)`
train_model_new_model(p) ==
    /\ ModelStep(p, "new_model")
    /\ conc' = [conc EXCEPT !.model = Estimator(p, FALSE), !.pc[p] = "fit_model"]

\* `self.model.fit(scaled_data)`: fits, in place, the model the attribute holds now
train_model_fit_model(p) ==
    /\ ModelStep(p, "fit_model")
    /\ conc' = [conc EXCEPT !.model = Estimator(p, TRUE), !.pc[p] = "save_model"]

\* `self.save_model()`: dumps what the attributes hold now
train_model_save_model(p) ==
    /\ ModelStep(p, "save_model")
    /\ conc' = [conc EXCEPT
                   !.files = [model |-> conc.model, scaler |-> conc.scaler],
                   !.pc[p] = "transform"]

\* `scaled_features = self.scaler.transform(features)`; an unfitted scaler raises
\* NotFittedError, which predict_anomaly turns into (False, 0.0)
predict_anomaly_transform(p) ==
    /\ ModelStep(p, "transform")
    /\ conc' = [conc EXCEPT
                   !.used_scaler[p] = conc.scaler,
                   !.raised[p] = ~conc.scaler.fitted,
                   !.pc[p] = IF conc.scaler.fitted THEN "predict" ELSE "done"]

\* `prediction = self.model.predict(scaled_features)[0]`; an unfitted model raises
\* NotFittedError, which predict_anomaly turns into (False, 0.0)
predict_anomaly_predict(p) ==
    /\ ModelStep(p, "predict")
    /\ conc' = [conc EXCEPT
                   !.used_model[p] = conc.model,
                   !.raised[p] = ~conc.model.fitted,
                   !.pc[p] = "done"]

NextModel ==
    \/ \E p \in Clients : predict_anomaly_check(p)
    \/ \E p \in Clients : load_model_exists(p)
    \/ \E p \in Clients : load_model_model(p)
    \/ \E p \in Clients : load_model_scaler(p)
    \/ \E p \in Clients : train_model_new_scaler(p)
    \/ \E p \in Clients : train_model_fit_scaler(p)
    \/ \E p \in Clients : train_model_new_model(p)
    \/ \E p \in Clients : train_model_fit_model(p)
    \/ \E p \in Clients : train_model_save_model(p)
    \/ \E p \in Clients : predict_anomaly_transform(p)
    \/ \E p \in Clients : predict_anomaly_predict(p)

SpecModel == InitModel /\ [][NextModel]_vars

----------------------------------------------------------------------------
(* The anomalous branch of TrackLocationView.post step by step: the alert is   *)
(* created, requests.post(url, json=..., timeout=5) is called inside the       *)
(* handler, and the Response is returned after it has returned or raised.      *)
(* Here `conc` holds the position of the request in progress, the seconds the  *)
(* webhook call has been pending, and the response the handler will return.    *)

NoCall == [pc |-> "idle", waited |-> 0, response |-> NoResp]

InitWebhook ==
    /\ journey = {}
    /\ location = [s \in Subjects |-> <<>>]
    /\ appended = [s \in Subjects |-> <<>>]
    /\ users = <<>>
    /\ alerts = {}
    /\ nextAlertId = 1
    /\ resp = NoResp
    /\ clock \in StartTime
    /\ fb = NoFb
    /\ conc = NoCall

\* the verdict of the submit is anomalous
AnomalousVerdict(user_id, latitude, longitude, timestamp, outcome) ==
    LET window == add_location_point(location[user_id],
                                     LocationData(latitude, longitude, timestamp))
    IN  ShouldScore(window) /\ predict_anomaly(extract_features(window), outcome).is_anomaly

\* TrackLocationView.post from its start to the call of requests.post: the
\* sample is appended, the verdict is anomalous, the alert is created
TrackLocationView_post_requests_post(user_id, latitude, longitude, timestamp, outcome) ==
    LET location_data == LocationData(latitude, longitude, timestamp)
        window == add_location_point(location[user_id], location_data)
        verdict == predict_anomaly(extract_features(window), outcome)
        created == UserByUsername(user_id) = 0
        user == IF created THEN Len(users) + 1 ELSE UserByUsername(user_id)
        alert == NewAlert(user, latitude, longitude, timestamp, verdict.anomaly_score)
    IN  /\ conc.pc = "idle"
        /\ is_journey_active(user_id)
        /\ AnomalousVerdict(user_id, latitude, longitude, timestamp, outcome)
        /\ RedisClient_add_location_point(user_id, location_data)
        /\ users' = IF created THEN Append(users, user_id) ELSE users
        /\ alerts' = alerts \cup {alert}
        /\ nextAlertId' = nextAlertId + 1
        /\ conc' = [pc |-> "pending", waited |-> 0,
                    response |-> [Response("track_location", user_id, 202) EXCEPT
                                     !.scored = TRUE,
                                     !.anomaly_detected = TRUE,
                                     !.anomaly_score = verdict.anomaly_score,
                                     !.alert_id = alert.id]]
        /\ UNCHANGED <<clock, resp, fb>>

\* a second passes and the notifier has not answered
requests_post_waits ==
    /\ conc.pc = "pending"
    /\ conc.waited < webhook_timeout
    /\ conc' = [conc EXCEPT !.waited = conc.waited + 1]
    /\ UNCHANGED <<journey, location, users, alerts, nextAlertId, clock, resp, appended, fb>>

\* the notifier answers: requests.post returns
requests_post_returns ==
    /\ conc.pc = "pending"
    /\ conc' = [conc EXCEPT !.pc = "return"]
    /\ UNCHANGED <<journey, location, users, alerts, nextAlertId, clock, resp, appended, fb>>

\* the notifier has not answered within the timeout: requests.post raises, and
\* `except Exception` prints the error
requests_post_times_out ==
    /\ conc.pc = "pending"
    /\ conc.waited = webhook_timeout
    /\ conc' = [conc EXCEPT !.pc = "return",
                            !.response.log = "Error sending anomaly webhook"]
    /\ UNCHANGED <<journey, location, users, alerts, nextAlertId, clock, resp, appended, fb>>

\* `return Response({... 'anomaly_detected': True ...}, status=202)`
TrackLocationView_post_return ==
    /\ conc.pc = "return"
    /\ resp' = conc.response
    /\ conc' = NoCall
    /\ UNCHANGED <<journey, location, users, alerts, nextAlertId, clock, appended, fb>>

NextWebhook ==
    \/ \E s \in Subjects : conc.pc = "idle" /\ StartJourneyView_post(s, TRUE)
    \/ \E s \in Subjects : conc.pc = "idle" /\ EndJourneyView_post(s, TRUE)
    \/ \E s \in Subjects, i \in ScoreInputs :
          /\ conc.pc = "idle"
          /\ Len(location[s]) < MaxFaultWindow
          /\ ~AnomalousVerdict(s, i[1][1], i[1][2], i[1][3], i[2])
          /\ TrackLocationView_post(s, i[1][1], i[1][2], i[1][3], i[2], TRUE, TRUE, TRUE)
    \/ \E s \in Subjects, i \in ScoreInputs :
          /\ Len(location[s]) < MaxFaultWindow
          /\ nextAlertId <= MaxFaultAlerts
          /\ TrackLocationView_post_requests_post(s, i[1][1], i[1][2], i[1][3], i[2])
    \/ requests_post_waits
    \/ requests_post_returns
    \/ requests_post_times_out
    \/ TrackLocationView_post_return

SpecWebhook == InitWebhook /\ [][NextWebhook]_vars

----------------------------------------------------------------------------
(* The geometry helpers alone: bearing_difference on pairs of bearings in      *)
(* whole degrees, at and around 0, 180 and 360, and haversine_distance on      *)
(* pairs of points of a grid over both hemispheres.  Here `fb` holds the       *)
(* arguments (features) and the value returned (confidence).                   *)

BearingInputs == {0, 1, 10, 45, 90, 135, 179, 180, 181, 225, 270, 315, 350, 359}

GridLatitudes == {-60, -20, 0, 20, 60}
GridLongitudes == {-160, -20, 0, 20, 160}

GeometryInputs ==
    {<<"bearings", x, y>> : x \in BearingInputs, y \in BearingInputs}
    \cup {<<"points", lat1, lon1, lat2, lon2>> :
              lat1 \in GridLatitudes, lon1 \in GridLongitudes,
              lat2 \in GridLatitudes, lon2 \in GridLongitudes}

InitGeometry ==
    /\ InitStores
    /\ clock \in StartTime
    /\ fb \in {[NoFb EXCEPT !.features = g] : g \in GeometryInputs}

\* `bearing_change = bearing_difference(bearings[i-1], bearings[i])`
BearingDifference ==
    /\ ~fb.scored
    /\ fb.features[1] = "bearings"
    /\ fb' = [fb EXCEPT !.scored = TRUE,
                        !.confidence = bearing_difference(fb.features[2], fb.features[3])]
    /\ UNCHANGED <<journey, location, users, alerts, nextAlertId, clock, resp, appended, conc>>

\* `distance = haversine_distance(float(prev_point['latitude']), ...)`
HaversineDistance ==
    /\ ~fb.scored
    /\ fb.features[1] = "points"
    /\ fb' = [fb EXCEPT
                 !.scored = TRUE,
                 !.confidence = haversine_distance_degrees(
                                    fb.features[2], fb.features[3],
                                    fb.features[4], fb.features[5])]
    /\ UNCHANGED <<journey, location, users, alerts, nextAlertId, clock, resp, appended, conc>>

NextGeometry ==
    \/ BearingDifference
    \/ HaversineDistance

SpecGeometry == InitGeometry /\ [][NextGeometry]_vars

----------------------------------------------------------------------------
(* A session of samples sent every 10 seconds from Mumbai or Delhi, as
   test_anomaly_detection.py sends them: a normal path, a jump, a normal path *)

JumpPlaces == {<<190760, 728777>>, <<286139, 772090>>}

\* the client's timestamp of the next sample: within the last day of the clock
SessionTimestamp(s) == 109700 + 10 * Len(location[s])

InitJump ==
    /\ InitStores
    /\ clock \in StartTime
    /\ fb = NoFb

\* test_anomaly_detection.py start_journey
JumpStart(s) ==
    /\ s \notin journey
    /\ StartJourneyView_post(s, TRUE)

\* test_anomaly_detection.py send_location
JumpSubmit(s, place, outcome) ==
    /\ s \in journey
    /\ Len(location[s]) < MaxJumpWindow
    /\ nextAlertId <= MaxJumpAlerts
    /\ TrackLocationView_post(s, place[1], place[2], SessionTimestamp(s), outcome,
                              TRUE, TRUE, TRUE)

NextJump ==
    \/ \E s \in Subjects : JumpStart(s)
    \/ \E s \in Subjects, place \in JumpPlaces, o \in ModelOutcomes :
          JumpSubmit(s, place, o)

SpecJump == InitJump /\ [][NextJump]_vars

----------------------------------------------------------------------------
(* start_journey, end_journey and track_location of concurrent requests for   *)
(* the same subject: each view sends its Redis commands one after the other,  *)
(* with no MULTI, pipeline or lock, so the commands of two requests interleave *)

\* pc: the position of each client's request; done: its finished requests;
\* seen[q]: the starts that had set the marker and not yet cleared the window when
\* is_journey_active answered q; since[p]: the samples accepted and pushed after
\* start p set the marker
NoRace ==
    [pc |-> [p \in Clients |-> "idle"], done |-> [p \in Clients |-> 0],
     seen |-> [p \in Clients |-> {}], since |-> [p \in Clients |-> {}]]

InitRace ==
    /\ journey = {}
    /\ location = [s \in Subjects |-> <<>>]
    /\ appended = [s \in Subjects |-> <<>>]
    /\ users = <<>>
    /\ alerts = {}
    /\ nextAlertId = 1
    /\ resp = NoResp
    /\ clock \in StartTime
    /\ fb = NoFb
    /\ conc = NoRace

\* start_journey: self.client.set(key, ...)
start_journey_set(p, user_id) ==
    /\ conc.pc[p] = "idle"
    /\ conc.done[p] < MaxRaceCalls
    /\ journey' = journey \cup {user_id}
    /\ conc' = [conc EXCEPT !.pc[p] = "start_set", !.since[p] = {}]
    /\ UNCHANGED <<location, appended, users, alerts, nextAlertId, clock, resp, fb>>

\* start_journey: self.client.delete(location_key); StartJourneyView.post returns
start_journey_delete(p, user_id) ==
    /\ conc.pc[p] = "start_set"
    /\ location' = [location EXCEPT ![user_id] = <<>>]
    /\ appended' = [appended EXCEPT ![user_id] = <<>>]
    /\ resp' = Response("start_journey", user_id, 200)
    /\ conc' = [conc EXCEPT !.pc[p] = "idle", !.done[p] = conc.done[p] + 1]
    /\ UNCHANGED <<journey, users, alerts, nextAlertId, clock, fb>>

\* end_journey: self.client.delete(journey_key)
end_journey_delete_journey(p, user_id) ==
    /\ conc.pc[p] = "idle"
    /\ conc.done[p] < MaxRaceCalls
    /\ journey' = journey \ {user_id}
    /\ conc' = [conc EXCEPT !.pc[p] = "end_deleted"]
    /\ UNCHANGED <<location, appended, users, alerts, nextAlertId, clock, resp, fb>>

\* end_journey: self.client.delete(location_key); EndJourneyView.post deletes the
\* alerts and returns
end_journey_delete_location(p, user_id) ==
    /\ conc.pc[p] = "end_deleted"
    /\ location' = [location EXCEPT ![user_id] = <<>>]
    /\ appended' = [appended EXCEPT ![user_id] = <<>>]
    /\ alerts' = alerts \ AlertsOf(user_id)
    /\ resp' = [Response("end_journey", user_id, 200) EXCEPT
                   !.safety_score_reset = TRUE,
                   !.anomalies_cleared = Cardinality(AlertsOf(user_id))]
    /\ conc' = [conc EXCEPT !.pc[p] = "idle", !.done[p] = conc.done[p] + 1]
    /\ UNCHANGED <<journey, users, nextAlertId, clock, fb>>

\* TrackLocationView.post: `if not redis_client.is_journey_active(user_id)`
track_location_is_journey_active(p, user_id) ==
    /\ conc.pc[p] = "idle"
    /\ conc.done[p] < MaxRaceCalls
    /\ IF is_journey_active(user_id)
       THEN /\ conc' = [conc EXCEPT
                           !.pc[p] = "track_checked",
                           !.seen[p] = {q \in Clients : conc.pc[q] = "start_set"}]
            /\ UNCHANGED resp
       ELSE /\ resp' = Response("track_location", user_id, 400)
            /\ conc' = [conc EXCEPT !.done[p] = conc.done[p] + 1]
    /\ UNCHANGED <<journey, location, appended, users, alerts, nextAlertId, clock, fb>>

\* add_location_point: self.client.rpush(location_key, json.dumps(location_data))
track_location_rpush(p, user_id) ==
    LET location_data == ClientSample(p, conc.done[p] + 1)
    IN  /\ conc.pc[p] = "track_checked"
        /\ location' = [location EXCEPT ![user_id] = rpush(location[user_id], location_data)]
        /\ appended' = [appended EXCEPT ![user_id] = Append(appended[user_id], location_data)]
        /\ conc' = [conc EXCEPT
                       !.pc[p] = "track_pushed",
                       !.since = [q \in Clients |->
                                     IF q \in conc.seen[p] /\ conc.pc[q] = "start_set"
                                     THEN conc.since[q] \cup {location_data}
                                     ELSE conc.since[q]]]
        /\ UNCHANGED <<journey, users, alerts, nextAlertId, clock, resp, fb>>

\* add_location_point: self.client.ltrim(location_key, -30, -1)
track_location_ltrim(p, user_id) ==
    /\ conc.pc[p] = "track_pushed"
    /\ location' = [location EXCEPT
                       ![user_id] = ltrim(location[user_id], 0 - WindowSize, -1)]
    /\ conc' = [conc EXCEPT !.pc[p] = "track_trimmed"]
    /\ UNCHANGED <<journey, appended, users, alerts, nextAlertId, clock, resp, fb>>

\* add_location_point: lrange; TrackLocationView.post scores the window it got,
\* creates the alert and returns
track_location_lrange(p, user_id, outcome) ==
    LET location_data == ClientSample(p, conc.done[p] + 1)
        window == lrange_all(location[user_id])
        scored == ShouldScore(window)
        verdict == predict_anomaly(extract_features(window), outcome)
        created == UserByUsername(user_id) = 0
        user == IF created THEN Len(users) + 1 ELSE UserByUsername(user_id)
        alert == NewAlert(user, location_data.latitude, location_data.longitude,
                          location_data.timestamp, verdict.anomaly_score)
    IN  /\ conc.pc[p] = "track_trimmed"
        /\ conc' = [conc EXCEPT !.pc[p] = "idle", !.done[p] = conc.done[p] + 1]
        /\ IF scored /\ verdict.is_anomaly
           THEN /\ users' = IF created THEN Append(users, user_id) ELSE users
                /\ alerts' = alerts \cup {alert}
                /\ nextAlertId' = nextAlertId + 1
                /\ resp' = [Response("track_location", user_id, 202) EXCEPT
                               !.scored = TRUE,
                               !.anomaly_detected = TRUE,
                               !.anomaly_score = verdict.anomaly_score,
                               !.alert_id = alert.id]
           ELSE /\ UNCHANGED <<users, alerts, nextAlertId>>
                /\ resp' = [Response("track_location", user_id, 202) EXCEPT
                               !.scored = scored,
                               !.log = IF scored THEN ScorerLog(outcome) ELSE ""]
        /\ UNCHANGED <<journey, location, appended, clock, fb>>

NextRace ==
    \/ \E p \in Clients, s \in Subjects : start_journey_set(p, s)
    \/ \E p \in Clients, s \in Subjects : start_journey_delete(p, s)
    \/ \E p \in Clients, s \in Subjects : end_journey_delete_journey(p, s)
    \/ \E p \in Clients, s \in Subjects : end_journey_delete_location(p, s)
    \/ \E p \in Clients, s \in Subjects : track_location_is_journey_active(p, s)
    \/ \E p \in Clients, s \in Subjects : track_location_rpush(p, s)
    \/ \E p \in Clients, s \in Subjects : track_location_ltrim(p, s)
    \/ \E p \in Clients, s \in Subjects, o \in ModelOutcomes :
          track_location_lrange(p, s, o)

SpecRace == InitRace /\ [][NextRace]_vars

----------------------------------------------------------------------------
(* Claims *)

\* the last n elements of a sequence
LastN(seq, n) == IF Len(seq) <= n THEN seq ELSE SubSeq(seq, Len(seq) - n + 1, Len(seq))

\* C1: after any sequence of start_journey / add_location_point / end_journey, one
\* at a time, the window of every subject holds at most 30 samples, and it holds
\* exactly the last min(k, 30) of the k samples appended since the window was last
\* cleared by a session start (or end), in insertion order.
C1_WindowHoldsLast30 ==
    \A s \in Subjects :
        /\ Len(location[s]) <= 30
        /\ Len(location[s]) = Min(Len(appended[s]), 30)
        /\ location[s] = LastN(appended[s], 30)

\* 35 samples were appended in one session and the window holds the last 30 of them
C1_Witness ==
    \E s \in Subjects :
        /\ s \in journey
        /\ Len(appended[s]) = 35
        /\ Len(location[s]) = 30
        /\ location[s][1] = appended[s][6]
        /\ location[s][30] = appended[s][35]

\* the clock readings at which a claim evaluates the score: now, and later
QueryTimes == {clock + d : d \in {0, 1, 43200, 86400, 86401}}

\* 22:00:00 to 04:59:59 in Asia/Kolkata (UTC+05:30)
IsNightIST(now) ==
    LET h == ((now + 19800) \div 3600) % 24 IN h >= 22 \/ h < 5

AnomalyFactor(n) == Factor("Detected recent movement anomalies", n)
NightFactor == Factor("Traveling during late night hours", 0)
NoHistoryFactor == Factor("No tracking history available", 0)

Range(seq) == {seq[i] : i \in 1..Len(seq)}

\* C2: when end_journey for s completes with Redis available, s has no journey
\* marker, an empty window and no AnomalyAlert, and the anomalies_cleared of the
\* response is the number of AnomalyAlerts s had just before the call.
C2_EndSessionClears ==
    [][\A s \in Subjects :
          (resp'.op = "end_journey" /\ EndJourneyView_post(s, TRUE)) =>
              /\ s \notin journey'
              /\ location'[s] = <<>>
              /\ AlertsOf(s)' = {}
              /\ resp'.op = "end_journey" /\ resp'.user_id = s
              /\ resp'.anomalies_cleared = Cardinality(AlertsOf(s))]_vars

\* end_journey has just answered that it cleared two alerts, and none is left
C2_Witness ==
    /\ resp.op = "end_journey" /\ ~resp.fallback
    /\ resp.anomalies_cleared = 2
    /\ resp.user_id \notin journey
    /\ location[resp.user_id] = <<>>
    /\ UserByUsername(resp.user_id) # 0
    /\ AlertsOf(resp.user_id) = {}

\* C3: when a submit for s through the HTTP view yields an anomalous verdict,
\* exactly one AnomalyAlert is created: it is unresolved, belongs to s, and carries
\* the sample's latitude, longitude and timestamp and the verdict's score; if s had
\* no alert before, the safety score of s at any later time within 24 h of the
\* alert's timestamp, outside the night hours, is 85 with the one factor naming 1
\* recent anomaly.
C3_AnomalousSubmitRecords ==
    [][\A s \in Subjects, c \in SampleInputs, o \in ModelOutcomes, wh \in BOOLEAN :
          (/\ resp'.anomaly_detected
           /\ TrackLocationView_post(s, c[1], c[2], c[3], o, TRUE, TRUE, wh))
          =>
          LET created == alerts' \ alerts IN
              /\ alerts \subseteq alerts'
              /\ Cardinality(created) = 1
              /\ created \subseteq AlertsOf(s)'
              /\ \A a \in created :
                    /\ a.latitude = c[1] /\ a.longitude = c[2] /\ a.timestamp = c[3]
                    /\ a.anomaly_score = o.decision
                    /\ resp'.anomaly_score = o.decision
                    /\ a.is_resolved = FALSE
              /\ AlertsOf(s) = {} =>
                    \A now \in QueryTimes :
                        (now - 86400 <= c[3] /\ ~IsNightIST(now)) =>
                            calculate_safety_score_by_user_id(s, now)' =
                                [score |-> 85, factors |-> <<AnomalyFactor(1)>>]]_vars

\* the view has just reported an anomaly for a subject that had no alert, and the
\* score of that subject, by day, is 85
C3_Witness ==
    /\ resp.op = "track_location" /\ resp.anomaly_detected
    /\ Cardinality(AlertsOf(resp.user_id)) = 1
    /\ ~IsNightIST(clock)
    /\ calculate_safety_score_by_user_id(resp.user_id, clock).score = 85

\* the answer of the safety score for a subject without a counted alert
NoPenaltyScore(s, now) ==
    IF UserByUsername(s) = 0 THEN [score |-> 100, factors |-> <<NoHistoryFactor>>]
    ELSE IF IsNightIST(now) THEN [score |-> 90, factors |-> <<NightFactor>>]
    ELSE [score |-> 100, factors |-> <<>>]

HasNoPenalty(s) ==
    \A now \in QueryTimes :
        calculate_safety_score_by_user_id(s, now) = NoPenaltyScore(s, now)

C5_ScoreInRange ==
    /\ \A s \in Subjects : \A now \in QueryTimes :
           calculate_safety_score_by_user_id(s, now).score \in 0..100
    /\ resp.op = "safety_score" => resp.score \in 0..100

\* the view has answered 0 for a subject with seven or more counted alerts
C5_Witness ==
    /\ resp.op = "safety_score" /\ resp.score = 0
    /\ Cardinality({a \in AlertsOf(resp.user_id) : a.timestamp >= clock - 86400}) >= 7

\* the alerts of s the score counts at `now`
CountedAt(s, now) == {a \in AlertsOf(s) : a.timestamp >= now - 86400}

ScoreWith(counted, now) ==
    LET raw == 100 - 15 * Cardinality(counted) - (IF IsNightIST(now) THEN 10 ELSE 0)
    IN  IF raw < 0 THEN 0 ELSE raw

\* C7, as stated: the anomaly penalty counts exactly the alerts of the subject
\* whose timestamp t satisfies now - 24h <= t <= now; an alert dated later than now
\* contributes nothing.
C7_Original ==
    \A s \in Subjects : UserByUsername(s) # 0 =>
        \A now \in QueryTimes :
            calculate_safety_score_by_user_id(s, now).score =
                ScoreWith({a \in AlertsOf(s) :
                               now - 86400 <= a.timestamp /\ a.timestamp <= now}, now)

\* C7, amended: the anomaly penalty counts exactly the alerts of the subject whose
\* timestamp t satisfies t >= now - 24h, with no upper bound: an alert dated exactly
\* 24 h before now counts, an alert dated later than now counts too, and an alert
\* dated more than 24 h before now contributes nothing, so with no new anomalies an
\* alert's 15 points disappear once more than 24 h have passed since its timestamp.
C7_PenaltyCountsFrom24hAgo ==
    \A s \in Subjects : UserByUsername(s) # 0 =>
        \A now \in QueryTimes :
            LET r == calculate_safety_score_by_user_id(s, now)
                counted == {a \in AlertsOf(s) : a.timestamp + 86400 >= now}
            IN  r.score = ScoreWith(counted, now)

\* the view has answered 70 by day for a subject with exactly two alerts, one dated
\* exactly 24 h before the clock reading and one dated later than it
C7_Witness ==
    /\ resp.op = "safety_score" /\ resp.score = 70 /\ ~IsNightIST(clock)
    /\ Cardinality(AlertsOf(resp.user_id)) = 2
    /\ \E a \in AlertsOf(resp.user_id) : a.timestamp = clock - 86400
    /\ \E a \in AlertsOf(resp.user_id) : a.timestamp > clock

\* C8, as stated: through the HTTP view and through the consumer, a submit for a
\* subject without an active journey marker changes neither the window nor the
\* alerts, and the HTTP view (the store being reachable) answers 400.
C8_Original ==
    [][\A s \in Subjects, c \in SampleInputs, o \in ModelOutcomes, up \in BOOLEAN :
          /\ (~is_journey_active(s)
              /\ \E db \in BOOLEAN, wh \in BOOLEAN :
                    TrackLocationView_post(s, c[1], c[2], c[3], o, up, db, wh))
             => /\ location' = location
                /\ alerts' = alerts
                /\ up => resp'.status = 400
          /\ (~is_journey_active(s)
              /\ TrackLocationConsumer_track_location(s, c[1], c[2], c[3], o, up))
             => /\ location' = location
                /\ alerts' = alerts]_vars

\* C9: a submit, through the HTTP view or the consumer, that leaves fewer than 2
\* samples in the subject's window is not scored, reports no anomaly and creates
\* no AnomalyAlert, whatever the model would have answered.
C9_FirstSampleNotScored ==
    [][\A s \in Subjects, c \in SampleInputs, o \in ModelOutcomes, up \in BOOLEAN :
          (/\ Len(location'[s]) < 2
           /\ resp'.op \in {"track_location", "consumer"}
           /\ \/ \E db \in BOOLEAN, wh \in BOOLEAN :
                    TrackLocationView_post(s, c[1], c[2], c[3], o, up, db, wh)
              \/ TrackLocationConsumer_track_location(s, c[1], c[2], c[3], o, up))
          => /\ ~resp'.scored
             /\ ~resp'.anomaly_detected
             /\ resp'.alert_id = 0
             /\ alerts' = alerts
             /\ nextAlertId' = nextAlertId]_vars

\* the view has accepted the first sample of a journey: the window holds it alone
\* and the answer carries no verdict
C9_Witness ==
    /\ resp.op = "track_location" /\ resp.status = 202 /\ ~resp.fallback
    /\ Len(location[resp.user_id]) = 1
    /\ ~resp.scored /\ ~resp.anomaly_detected
    /\ alerts = {}

\* the number of indicators a vector triggers
IndicatorCount(f) ==
    LET abs_acc == IF f[10] < 0 THEN 0 - f[10] ELSE f[10]
    IN  Cardinality({i \in 1..4 :
            \/ i = 1 /\ f[3] > 50
            \/ i = 2 /\ f[7] > 120
            \/ i = 3 /\ abs_acc > 10
            \/ i = 4 /\ f[1] < 1 /\ f[7] > 90})

\* C10: for every feature vector the rule-based scorer answers
\* is_anomaly = (count >= 2) and confidence = count / 4 (in 1/100: 25 * count),
\* count being the number of the four indicators the vector triggers; max speed 60
\* with max bearing change 130 and nothing else triggered gives (true, 0.5).
C10_FallbackScorer ==
    /\ (fb.scored /\ fb.features # NoVector) =>
           /\ fb.is_anomaly = (IndicatorCount(fb.features) >= 2)
           /\ fb.confidence = 25 * IndicatorCount(fb.features)
    /\ (fb.scored /\ fb.features = FeatureVector(5, 60, 130, 0)) =>
           fb.is_anomaly /\ fb.confidence = 50

\* the scorer has answered (true, 0.5) for max speed 60 and max bearing change 130
C10_Witness ==
    /\ fb.scored
    /\ fb.features = FeatureVector(5, 60, 130, 0)
    /\ fb.is_anomaly /\ fb.confidence = 50

\* C11, as stated: when no trained model is available (load_model() fails), the
\* verdict the ingestion path gets for a feature vector is the verdict of the
\* rule-based scorer for that vector.
C11_Original ==
    (fb.predicted /\ ~fb.loaded) =>
        /\ fb.model_is_anomaly = is_anomalous_behavior(fb.features).is_anomaly
        /\ fb.model_score = is_anomalous_behavior(fb.features).confidence

\* the outcomes of the trained model that are failures of the scorer
ScorerFailures == {o \in ModelOutcomes : ~o.loaded \/ o.raised}

\* C12: when scaling or inference raises inside predict_anomaly (and likewise when
\* the model cannot be loaded), the call returns (False, 0.0): a submit through the
\* HTTP view during which the scorer fails reports no anomaly, with score 0, and
\* creates no AnomalyAlert, whatever else fails.
C12_ScorerFailureNeverAnomalous ==
    [][\A s \in Subjects, c \in SampleInputs, o \in ScorerFailures,
         up \in BOOLEAN, db \in BOOLEAN, wh \in BOOLEAN :
          (/\ resp'.op = "track_location"
           /\ TrackLocationView_post(s, c[1], c[2], c[3], o, up, db, wh))
          => /\ predict_anomaly(extract_features(location'[s]), o) =
                    [is_anomaly |-> FALSE, anomaly_score |-> 0]
             /\ ~resp'.anomaly_detected
             /\ resp'.anomaly_score = 0
             /\ resp'.alert_id = 0
             /\ alerts' = alerts]_vars

\* the view has scored a window of two samples while inference raised, and has
\* answered 202 with no anomaly
C12_Witness ==
    /\ resp.op = "track_location" /\ resp.status = 202
    /\ resp.scored /\ resp.log = "Error in anomaly prediction"
    /\ Len(location[resp.user_id]) >= 2
    /\ ~resp.anomaly_detected /\ alerts = {}

C14_Original ==
    [][\A s \in Subjects :
          (resp'.op = "reset_anomalies" /\ ResetAnomaliesView_post(s))
          => /\ resp'.deleted = Cardinality(AlertsOf(s))
             /\ AlertsOf(s)' = {}
             /\ HasNoPenalty(s)']_vars

\* C15: a well-formed submit through the HTTP view for a subject with an active
\* journey is answered 202, whichever of the session store, the trained model,
\* the database and the webhook fails while it is processed.
C15_SubmitAlwaysAccepted ==
    [][\A s \in Subjects, c \in SampleInputs, o \in ModelOutcomes,
         up \in BOOLEAN, db \in BOOLEAN, wh \in BOOLEAN :
          (/\ resp'.op = "track_location"
           /\ is_journey_active(s)
           /\ TrackLocationView_post(s, c[1], c[2], c[3], o, up, db, wh))
          => resp'.status = 202]_vars

\* the view has answered 202 in fallback mode to a submit whose alert could not be
\* stored: the sample is in the window and there is no alert
C15_Witness ==
    /\ resp.op = "track_location" /\ resp.status = 202
    /\ resp.fallback /\ resp.error = "database"
    /\ is_journey_active(resp.user_id)
    /\ Len(location[resp.user_id]) >= 2
    /\ alerts = {}

\* C16, as stated: once a submit through the HTTP view has computed an anomalous
\* verdict, the response reports anomaly_detected = true with the computed score,
\* whether or not the webhook call or the creation of the AnomalyAlert fails.
C16_Original ==
    [][\A s \in Subjects, c \in SampleInputs, o \in ModelOutcomes,
         db \in BOOLEAN, wh \in BOOLEAN :
          (/\ resp'.op = "track_location"
           /\ is_journey_active(s)
           /\ TrackLocationView_post(s, c[1], c[2], c[3], o, TRUE, db, wh)
           /\ ShouldScore(location'[s])
           /\ predict_anomaly(extract_features(location'[s]), o).is_anomaly)
          => /\ resp'.anomaly_detected
             /\ resp'.anomaly_score = o.decision]_vars

\* C17, as stated: while appends for the same subject run concurrently, no window
\* returned by add_location_point and no window read by get_location_window has
\* more than 30 entries.
C17_Original ==
    /\ Len(conc.snapshot) <= 30
    /\ \A p \in Clients : Len(conc.returned[p]) <= 30

\* C18: while the calls of add_location_point of several clients for one subject
\* interleave during an active journey, and as long as at most 30 samples have been
\* pushed in total, the window holds every pushed sample exactly once, in the
\* order of arrival, and the window a call returns holds the sample it pushed.
C18_NoSampleLostOrDuplicated ==
    \A s \in Subjects :
        Len(appended[s]) <= 30 =>
            /\ location[s] = appended[s]
            /\ \A i, j \in 1..Len(location[s]) :
                   location[s][i] = location[s][j] => i = j
            /\ \A p \in Clients :
                   (conc.pc[p] = "idle" /\ conc.done[p] > 0) =>
                       ClientSample(p, conc.done[p]) \in Range(conc.returned[p])

\* two clients have each completed two calls on an empty window; the last call of
\* client 1 returned after a push of client 2 that came after its own
C18_Witness ==
    /\ \A p \in Clients : conc.pc[p] = "idle" /\ conc.done[p] = 2
    /\ \E s \in Subjects :
          /\ Len(location[s]) = 4
          /\ conc.returned[1] = location[s]
          /\ location[s][4] = ClientSample(2, 2)
          /\ location[s][3] = ClientSample(1, 2)

\* the handlers that are invoked for one subject
SubjectOps ==
    {"start_journey", "end_journey", "track_location", "consumer", "safety_score",
     "reset_anomalies"}

\* C19, as stated: no operation invoked for subject a changes the window, the
\* journey marker or the AnomalyAlerts of another subject b, or the safety score
\* returned for b.
C19_Original ==
    [][\A a \in CrossSubjects, b \in CrossSubjects :
          (a # b /\ resp'.op \in SubjectOps /\ resp'.user_id = a)
          => /\ location'[b] = location[b]
             /\ is_journey_active(b)' = is_journey_active(b)
             /\ AlertsOf(b)' = AlertsOf(b)
             /\ calculate_safety_score_by_user_id(b, clock)' =
                    calculate_safety_score_by_user_id(b, clock)]_vars

\* the ids of a set of alerts
Ids(rows) == {a.id : a \in rows}

C21_Original ==
    \A s \in Subjects :
        (is_journey_active(s) \/ location[s] # <<>>) =>
            \A now \in QueryTimes :
                LET r == calculate_safety_score_by_user_id(s, now) IN
                    /\ r.score = ScoreWith(CountedAt(s, now), now)
                    /\ IsNightIST(now) <=> (NightFactor \in Range(r.factors))

\* the safety score of s is the answer for a subject without tracking history, at
\* every query time
HasNoHistory(s) ==
    \A now \in QueryTimes :
        calculate_safety_score_by_user_id(s, now) =
            [score |-> 100, factors |-> <<NoHistoryFactor>>]

\* the handlers by which a subject is seen: a session start or a submit
SeenOps == {"start_journey", "track_location", "consumer"}

\* C22: a subject that has never been seen has, at every query time, the safety
\* score 100 with the single factor "No tracking history available", and the
\* safety score view answers it with status 200: this holds before any request,
\* it is kept by every step other than a session start or a submit for that
\* subject (requests for other subjects, and end_journey, reset_anomalies and
\* safety score requests for the subject itself), and a safety score request in
\* that situation returns exactly this answer.
C22_NeverSeenScores100 ==
    /\ \A s \in CrossSubjects : HasNoHistory(s)
    /\ [][\A s \in CrossSubjects :
             /\ (/\ HasNoHistory(s)
                 /\ ~(resp'.op \in SeenOps /\ resp'.user_id = s))
                => HasNoHistory(s)'
             /\ (/\ resp'.op = "safety_score" /\ resp'.user_id = s
                 /\ HasNoHistory(s))
                => /\ resp'.status = 200
                   /\ resp'.score = 100
                   /\ resp'.factors = <<NoHistoryFactor>>]_vars

\* the view has answered 100 with "No tracking history available" for a subject
\* without journey, samples or alerts, while the other subject has an alert
C22_Witness ==
    /\ resp.op = "safety_score" /\ resp.status = 200
    /\ resp.score = 100 /\ resp.factors = <<NoHistoryFactor>>
    /\ ~is_journey_active(resp.user_id)
    /\ location[resp.user_id] = <<>>
    /\ AlertsOf(resp.user_id) = {}
    /\ UserByUsername(resp.user_id) = 0
    /\ \E b \in CrossSubjects : b # resp.user_id /\ AlertsOf(b) # {}

\* C23: with the time of day held fixed (both query times in the night hours, or
\* both outside them), the safety score of a subject is non-increasing in the
\* number of its AnomalyAlerts of the last 24 h: in one state, and across any step
\* that leaves the clock alone, a query that counts at least as many alerts as
\* another returns a score that is not higher, including the step that creates the
\* first alert of a subject that had no User row.
C23_ScoreMonotone ==
    /\ [](\A s \in Subjects : \A now1 \in QueryTimes, now2 \in QueryTimes :
            (/\ IsNightIST(now1) = IsNightIST(now2)
             /\ Cardinality(CountedAt(s, now2)) >= Cardinality(CountedAt(s, now1)))
            => calculate_safety_score_by_user_id(s, now2).score
                   <= calculate_safety_score_by_user_id(s, now1).score)
    /\ [][\A s \in Subjects : \A now1 \in QueryTimes, now2 \in QueryTimes :
            (/\ clock' = clock
             /\ IsNightIST(now1) = IsNightIST(now2)
             /\ Cardinality(CountedAt(s, now2)') >= Cardinality(CountedAt(s, now1)))
            => calculate_safety_score_by_user_id(s, now2)'.score
                   <= calculate_safety_score_by_user_id(s, now1).score]_vars

\* by night the view has just created the first alert of a subject, which had no
\* User row and scored 100 before: the score is now 75
C23_Witness ==
    /\ resp.op = "track_location" /\ resp.anomaly_detected
    /\ IsNightIST(clock)
    /\ users = <<resp.user_id>>
    /\ Cardinality(CountedAt(resp.user_id, clock)) = 1
    /\ calculate_safety_score_by_user_id(resp.user_id, clock).score = 75

\* the timestamps of a window are pairwise different
DistinctTimestamps(window) ==
    \A i, j \in 1..Len(window) : window[i].timestamp = window[j].timestamp => i = j

\* C24, as stated: for any two windows holding the same samples in different
\* arrival orders, samples that share a timestamp but differ in position included,
\* extract_features returns the same result.
C24_Original ==
    [][\A s \in Subjects :
          location'[s] # location[s]
          => extract_features(location'[s]) = extract_features(location[s])]_vars

\* C24, amended: for any two windows holding the same samples in different arrival
\* orders, extract_features returns the same result provided the timestamps of
\* the samples are pairwise different; samples that share a timestamp keep their
\* arrival order in the sorted window (the sort is stable), so which of them is
\* paired with the earlier and the later neighbour, and with it the result,
\* depends on the arrival order.
C24_ExtractIgnoresArrivalOrder ==
    [][\A s \in Subjects :
          (location'[s] # location[s] /\ DistinctTimestamps(location[s]))
          => extract_features(location'[s]) = extract_features(location[s])]_vars

\* the features of a window of three samples with different timestamps that
\* arrived out of chronological order have been extracted from two usable pairs
C24_Witness ==
    /\ fb.scored
    /\ \E s \in Subjects :
          /\ Len(location[s]) = 3
          /\ DistinctTimestamps(location[s])
          /\ location[s] # SortByTimestamp(location[s])
          /\ fb.features = extract_features(location[s])
          /\ fb.features.present /\ fb.features.n_speeds = 2

\* the pairs of the sorted window in which no malformed sample takes part
WellFormedPairs(window) ==
    {i \in UsablePairs(SortByTimestamp(window)) : NumericPair(SortByTimestamp(window), i)}

\* C25, as stated: a malformed sample in the window (a timestamp that does not
\* parse, a latitude or longitude that is not a number) only removes the point
\* pairs it takes part in: extract_features never raises, and it returns the
\* features of the remaining usable pairs, or None when none remain.
C25_Original ==
    \A s \in Subjects :
        (fb.scored /\ Len(location[s]) >= 2) =>
            /\ ~fb.features.raised
            /\ fb.features.present = (WellFormedPairs(location[s]) # {})
            /\ fb.features.n_speeds = Cardinality(WellFormedPairs(location[s]))

\* C26: when the session store raises during end_journey for s, on the first or
\* on the second command of RedisClient.end_journey, every AnomalyAlert of s is
\* still deleted and the caller gets status 200 with anomalies_cleared equal to
\* the number of AnomalyAlerts s had just before the call.
C26_EndSessionDeletesWithoutStore ==
    [][\A s \in Subjects :
          (/\ resp'.op = "end_journey"
           /\ EndJourneyView_post(s, FALSE) \/ EndJourneyView_post_delete_raises(s))
          => /\ AlertsOf(s)' = {}
             /\ resp'.status = 200
             /\ resp'.fallback
             /\ resp'.safety_score_reset
             /\ resp'.anomalies_cleared = Cardinality(AlertsOf(s))]_vars

\* end_journey has answered in fallback mode that it cleared two alerts; the store
\* raised before anything was deleted there (the marker and the window remain)
\* and no alert is left
C26_Witness ==
    /\ resp.op = "end_journey" /\ resp.status = 200 /\ resp.fallback
    /\ resp.anomalies_cleared = 2
    /\ is_journey_active(resp.user_id)
    /\ Len(location[resp.user_id]) >= 2
    /\ UserByUsername(resp.user_id) # 0
    /\ alerts = {}

NeverWritten(s) == ~is_journey_active(s) /\ location[s] = <<>> /\ appended[s] = <<>>

\* C28: the operations of RedisClient on a subject for which nothing is stored do
\* not fail: get_location_window returns the empty window, is_journey_active
\* returns false, end_journey can be called and leaves nothing stored, and
\* add_location_point creates the window holding exactly the appended sample (and
\* no journey marker).
C28_UnknownSubjectIsEmpty ==
    /\ [](\A s \in Subjects :
            NeverWritten(s) =>
                /\ get_location_window(s) = <<>>
                /\ is_journey_active(s) = FALSE
                /\ ENABLED WindowEnd(s)
                /\ ENABLED WindowAppend(s))
    /\ [][\A s \in Subjects :
            NeverWritten(s) =>
                /\ WindowEnd(s) => NeverWritten(s)'
                /\ WindowAppend(s) =>
                      /\ Len(location'[s]) = 1
                      /\ location'[s] = appended'[s]
                      /\ get_location_window(s)' = appended'[s]
                      /\ ~is_journey_active(s)']_vars

\* a sample was appended for a subject that had nothing stored: the window holds
\* that sample alone and there is no journey marker
C28_Witness ==
    \E s \in Subjects :
        /\ ~is_journey_active(s)
        /\ Len(appended[s]) = 1
        /\ get_location_window(s) = appended[s]

\* C29, as stated: a call of predict_anomaly that runs while another request
\* loads or trains the model uses a fitted scaler and a fitted model of the same
\* version: never a scaler of one training run with the model of another, and
\* never an estimator that is assigned but not yet fitted.
C29_Original ==
    \A p \in Clients :
        /\ conc.pc[p] \in {"predict", "done"} => conc.used_scaler[p].fitted
        /\ (conc.pc[p] = "done" /\ conc.used_scaler[p].fitted) =>
               /\ conc.used_model[p].fitted
               /\ conc.used_model[p].version = conc.used_scaler[p].version

\* C30, as stated: the response to a submit with an anomalous verdict does not
\* wait for the notification: while the webhook call is pending the handler can
\* return its response, so a notifier that does not answer does not delay it.
C30_Original ==
    conc.pc = "pending" => ENABLED TrackLocationView_post_return

\* C31: for all bearings x and y in [0, 360), bearing_difference(x, y) lies in
\* [0, 180] and equals bearing_difference(y, x), and it wraps across the 0/360
\* boundary: bearing_difference(350, 10) = 20.
C31_BearingDifference ==
    (fb.scored /\ fb.features[1] = "bearings") =>
        LET x == fb.features[2]
            y == fb.features[3]
        IN  /\ fb.confidence >= 0 /\ fb.confidence <= 180
            /\ fb.confidence = bearing_difference(y, x)
            /\ (x = 350 /\ y = 10) => fb.confidence = 20
            /\ (x = 0 /\ y = 359) => fb.confidence = 1

\* the difference of the bearings 350 and 10 has been computed, and it is 20
C31_Witness ==
    /\ fb.scored
    /\ fb.features = <<"bearings", 350, 10>>
    /\ fb.confidence = 20

\* C32: for all points a and b, haversine_distance(a, b) = haversine_distance(b, a),
\* the distance is never negative, and haversine_distance(a, a) = 0.
C32_DistanceSymmetric ==
    (fb.scored /\ fb.features[1] = "points") =>
        LET lat1 == fb.features[2]
            lon1 == fb.features[3]
            lat2 == fb.features[4]
            lon2 == fb.features[5]
        IN  /\ fb.confidence = haversine_distance_degrees(lat2, lon2, lat1, lon1)
            /\ fb.confidence >= 0
            /\ (lat1 = lat2 /\ lon1 = lon2) => fb.confidence = 0
            /\ haversine_distance_degrees(lat1, lon1, lat1, lon1) = 0

\* the distance between two points of different latitude, 180 degrees of
\* longitude apart across the date line, has been computed, and it is not 0
C32_Witness ==
    /\ fb.scored
    /\ fb.features = <<"points", 20, -20, 60, 160>>
    /\ fb.confidence > 0
    /\ fb.confidence = haversine_distance_degrees(60, 160, 20, -20)

\* C33: whenever extract_features returns a vector it has exactly 14 elements, its
\* point count (element 12) is the length of the whole window, skipped points
\* included, and with exactly one usable pair the speed mean, max, min and the
\* current speed are that pair's speed while the speed std, the bearing-change
\* and acceleration statistics and the total acceleration magnitude are 0
C33_VectorShape ==
    \A s \in Subjects :
        (fb.scored /\ fb.features.present) =>
            LET sorted_window == SortByTimestamp(location[s])
                usable == UsablePairs(sorted_window)
                vector == fb.features.features
            IN  /\ Len(vector) = 14
                /\ vector[12] = Len(location[s])
                /\ Cardinality(usable) = 1 =>
                       LET speed == PairSpeed(sorted_window, CHOOSE i \in usable : TRUE)
                       IN  /\ \A k \in {1, 3, 4, 13} : vector[k] = speed
                           /\ \A k \in {2, 5, 6, 7, 8, 9, 10, 11, 14} : vector[k] = 0

\* a vector was returned for a window of three points of which one was skipped,
\* leaving a single usable pair of non-zero speed
C33_Witness ==
    \E s \in Subjects :
        /\ fb.scored /\ fb.features.present
        /\ Len(location[s]) = 3
        /\ fb.features.n_speeds = 1
        /\ fb.features.features[12] = 3
        /\ fb.features.features[13] > 0
        /\ \E i \in 1..3 : location[s][i].timestamp = UnparseableTimestamp

\* the k-th usable pair of the sorted window
NthUsable(sorted_window, k) ==
    CHOOSE i \in UsablePairs(sorted_window) :
        Cardinality({j \in UsablePairs(sorted_window) : j <= i}) = k

\* C34: each acceleration sample is (speed_i - speed_(i-1)) / 10 for the consecutive
\* usable pairs i-1 and i, whatever the time between the samples and whatever
\* skipped pairs lie between the two usable pairs
C34_AccelerationFixedInterval ==
    \A s \in Subjects :
        (fb.scored /\ fb.features.present) =>
            LET sorted_window == SortByTimestamp(location[s])
                n == Cardinality(UsablePairs(sorted_window))
            IN  /\ Len(fb.features.accelerations) = n - 1
                /\ \A k \in 1..(n - 1) :
                       fb.features.accelerations[k] =
                           (PairSpeed(sorted_window, NthUsable(sorted_window, k + 1))
                                - PairSpeed(sorted_window, NthUsable(sorted_window, k)))
                               \div 10

\* an acceleration was taken across a skipped pair, between two usable pairs of
\* 10 and 20 seconds
C34_Witness ==
    \E s \in Subjects :
        /\ fb.scored /\ fb.features.present
        /\ LET sorted_window == SortByTimestamp(location[s])
           IN  /\ UsablePairs(sorted_window) = {2, 4}
               /\ sorted_window[2].timestamp - sorted_window[1].timestamp = 10
               /\ sorted_window[4].timestamp - sorted_window[3].timestamp = 20
        /\ fb.features.accelerations = <<-5741>>
        /\ fb.features.features[14] = 5741

\* the step into point i of the window is a jump between the two cities
IsJumpAt(window, i) ==
    /\ i \in 2..Len(window)
    /\ window[i].latitude # window[i - 1].latitude

\* an AnomalyRecord of subject s was created for a jump that is in the window
JumpRecorded(s, window) ==
    \E i \in 2..Len(window), a \in AlertsOf(s) :
        /\ IsJumpAt(window, i)
        /\ a.timestamp = window[i].timestamp
        /\ a.latitude = window[i].latitude

\* the last step of the window is normal: no displacement, time moves forward
LastStepNormal(window) ==
    /\ Len(window) >= 2
    /\ window[Len(window)].latitude = window[Len(window) - 1].latitude
    /\ window[Len(window)].longitude = window[Len(window) - 1].longitude
    /\ window[Len(window)].timestamp > window[Len(window) - 1].timestamp

\* C35 (as stated): once a jump has been recorded in the session, an accepted
\* sample whose own step is normal, sent while the jump is still in the window,
\* creates no further AnomalyRecord and does not lower the safety score
C35_Original ==
    [][\A s \in Subjects :
          (/\ resp'.op = "track_location" /\ resp'.status = 202
           /\ JumpRecorded(s, location[s])
           /\ LastStepNormal(location'[s]))
          => /\ alerts' = alerts
             /\ calculate_safety_score_by_user_id(s, clock').score
                    >= calculate_safety_score_by_user_id(s, clock).score]_vars

\* no request is between two of its Redis commands
Quiescent == \A p \in Clients : conc.pc[p] = "idle"

\* C36 (as stated, and only for the states in which every request has returned):
\* under interleavings of track_location with start_journey and end_journey for
\* the same subject, a subject without a session marker has an empty window, and
\* a sample accepted after a start set the marker is not removed from the window
\* by that start
C36_Original ==
    /\ [](\A s \in Subjects :
             (Quiescent /\ ~is_journey_active(s)) => location[s] = <<>>)
    /\ [][\A p \in Clients, s \in Subjects :
             (conc.pc[p] = "start_set" /\ conc'.pc[p] = "idle")
             => \A x \in conc.since[p] :
                    x \in Range(location[s]) => x \in Range(location'[s])]_vars

\* C37 (as stated): whenever an end_journey response carries safety_score_reset =
\* true, the subject has no AnomalyAlert when the response is produced, also on
\* the path where the session store failed
C37_Original ==
    [][\A s \in Subjects :
          (/\ resp'.op = "end_journey" /\ resp'.user_id = s
           /\ resp'.safety_score_reset)
          => AlertsOf(s)' = {}]_vars

\* C38 (as stated): on the consumer path an admin alert is broadcast for an
\* anomalous sample only if an AnomalyAlert for that sample was stored
C38_Original ==
    [][(resp'.op = "consumer" /\ resp'.admin_alert)
          => \E a \in alerts' \ alerts :
                 /\ a.anomaly_score = resp'.anomaly_score
                 /\ a.timestamp = location'[resp'.user_id][Len(location'[resp'.user_id])].timestamp]_vars

\* the columns of an AnomalyAlert that UpdateAnomalySerializer does not expose
FrozenColumns == {"id", "user", "latitude", "longitude", "timestamp", "anomaly_score"}

\* C39: an update of an AnomalyAlert changes only its is_resolved and
\* resolution_notes; the alert still counts toward the anomaly penalty, so every
\* subject's safety score is the same before and after at every query time, and
\* a resolved alert is no longer in the list of unresolved alerts, which is
\* otherwise unchanged
C39_ResolveOnlyFlagsAndNotes ==
    [][(resp'.op = "update_anomaly" /\ resp'.status = 200)
       => /\ \E a \in alerts, b \in alerts' :
                /\ a.id = resp'.alert_id /\ b.id = a.id
                /\ \A column \in FrozenColumns : b[column] = a[column]
                /\ alerts' \ {b} = alerts \ {a}
                /\ AdminAnomaliesView_get_queryset' =
                       (AdminAnomaliesView_get_queryset \ {a})
                           \cup (IF b.is_resolved THEN {} ELSE {b})
          /\ \A s \in CrossSubjects, now \in QueryTimes :
                calculate_safety_score_by_user_id(s, now)' =
                    calculate_safety_score_by_user_id(s, now)]_vars

\* an unresolved alert that lowers its subject's score to 85 has just been
\* resolved with a note: the list of unresolved alerts is empty and the score is
\* still 85
C39_Witness ==
    /\ resp.op = "update_anomaly" /\ resp.status = 200
    /\ AdminAnomaliesView_get_queryset = {}
    /\ \E a \in alerts :
          /\ a.id = resp.alert_id
          /\ a.is_resolved /\ a.resolution_notes = "false alarm"
          /\ \E s \in CrossSubjects :
                /\ a \in AlertsOf(s)
                /\ calculate_safety_score_by_user_id(s, clock).score = 85

====
